---- MODULE Spec2Model ----
(***************************************************************************)
(* A model of the worker-and-event pipeline of vocode-python:              *)
(*   src/vocode/streaming/utils/worker.py   (AsyncWorker, AsyncQueueWorker,*)
(*       InterruptableEvent, InterruptableWorker)                          *)
(*   src/vocode/streaming/agent/base_agent.py (RespondAgent)               *)
(*                                                                         *)
(* asyncio is modelled at the granularity of its scheduler: one action is  *)
(* one uninterrupted run of a task between two suspension points, or one   *)
(* synchronous call made by another holder of the worker or of an event.   *)
(* A Task that is cancelled is marked (cancel() only requests); the        *)
(* CancelledError is delivered at the task's next step.                    *)
(***************************************************************************)
EXTENDS Integers, Sequences, FiniteSets, TLC

\* ---------------------------------------------------------------- bounds
NEvents == 3
MaxOut == 2

Events == 1..NEvents
NoEvent == 0

VARIABLES
    kind,                \* the worker class: "queue" (AsyncQueueWorker), "interruptable", "agent"
    nextEv,              \* events constructed so far: 1..nextEv exist
    is_interruptable,    \* InterruptableEvent.is_interruptable, per event
    interruption_event,  \* InterruptableEvent.interruption_event.is_set(), per event
    input_queue,         \* AsyncWorker.input_queue
    output_queue,        \* AsyncWorker.output_queue
    worker_task,         \* AsyncWorker.worker_task and where its coroutine is suspended
    worker_cancel,       \* worker_task._must_cancel: a CancelledError is due at its next step
    current_task,        \* InterruptableWorker.current_task (the process() run) and its state
    task_cancel,         \* a CancelledError is due in the process() run at its next step
    interruptable_event, \* InterruptableWorker.interruptable_event
    item,                \* the local variable item of _run_loop
    last,                \* the call or step made last, with the value it returned
    started,             \* history: events whose process() body began, in order
    dropped,             \* history: events skipped by the is_interrupted() check
    finished,            \* history: events the run loop has finished with (line 223 passed)
    failed,              \* history: events whose process() raised an Exception
    terminated           \* history: terminate() has returned True

workerVars == <<kind, nextEv, is_interruptable, interruption_event, input_queue,
                output_queue, worker_task, worker_cancel, current_task, task_cancel,
                interruptable_event, item, last, started, dropped, finished, failed, terminated>>

VARIABLES
    agent_config,        \* BaseAgent.agent_config, the fields RespondAgent reads
    is_muted,            \* BaseAgent.is_muted
    payload,             \* InterruptableEvent.payload: the variant of AgentInput, per event
    transcript,          \* BaseAgent.transcript, the entries appended by the agent
    actions_queue,       \* BaseAgent.actions_queue
    apc,                 \* where RespondAgent.process is suspended
    agent_input,         \* the local variable agent_input of process
    generated,           \* history: the items generate_response has yielded in the last turn
    function_call,       \* the local variable function_call of handle_generate_response
    yielded,             \* history: the number of items generate_response has yielded so far
    skipped,             \* history: events whose process returned at the is_muted check
    model_raised,        \* history: events in whose turn respond or generate_response raised
    responded,           \* history: the turn and the result of the last return of respond
    called,              \* history: the turn and the arguments of the last call of call_function
    goodbye_detected     \* history: events in whose turn the goodbye task resolved true in time

agentVars == <<agent_config, is_muted, payload, transcript, actions_queue, apc,
               agent_input, generated, function_call, yielded, skipped, model_raised,
               responded, called, goodbye_detected>>

VARIABLES
    synthesizer,         \* which method built the SynthesisResult: "filler", "from_wav"; "none": no synthesis
    audio_data,          \* FillerAudio.audio_data / output_bytes: the audio, one element per byte
    chunk_size,          \* the local variable chunk_size of the method
    message_text,        \* message.text, one element per character
    chunk_i,             \* the loop variable i of chunk_generator (the next value of the range)
    chunks,              \* history: the ChunkResults chunk_generator has yielded, in order
    exhausted,           \* chunk_generator has returned (StopAsyncIteration)
    up_to                \* history: the calls of get_message_up_to, with what each returned

synthVars == <<synthesizer, audio_data, chunk_size, message_text, chunk_i, chunks,
               exhausted, up_to>>

VARIABLES
    audio_encoding,      \* transcriber_config.audio_encoding: "linear16", "mulaw"
    transcriber_is_muted,\* AbstractTranscriber.is_muted
    sent                 \* history: the calls of send_audio, with the chunk given and how each ended

transcriberVars == <<audio_encoding, transcriber_is_muted, sent>>

VARIABLES
    worker_thread,       \* ThreadAsyncWorker.worker_thread: "none", "running"
    input_janus_queue,   \* ThreadAsyncWorker.input_janus_queue
    output_janus_queue,  \* ThreadAsyncWorker.output_janus_queue
    thread_got,          \* history: the items the thread has taken off input_janus_queue, in order
    thread_put           \* history: the items the thread has put on output_janus_queue, in order

threadVars == <<worker_thread, input_janus_queue, output_janus_queue, thread_got,
                thread_put>>

VARIABLES
    generator,           \* where experimental_mp3_streaming_output_generator is suspended, or how it ended
    has_span,            \* create_speech_span is not None
    span_ended,          \* create_speech_span.end() has been called
    response,            \* response.content: the chunks iter_any() gives, in order
    response_i,          \* the number of chunks send_chunks has read
    send_task,           \* the task running send_chunks: "none", "running", "done", "raised"
    pushed,              \* history: the items send_chunks has given to consume_nonblocking, in order
    yielded_chunks       \* history: the ChunkResults the generator has yielded, in order

mp3Vars == <<generator, has_span, span_ended, response, response_i, send_task, pushed,
             yielded_chunks>>

VARIABLES
    synthesizer_config,  \* the argument synthesizer_config: audio_encoding and sampling_rate
    logger_given,        \* the argument logger is not None
    session_given,       \* the argument aiohttp_session is not None
    constructed,         \* BaseSynthesizer.__init__: "no" not called, "yes" returned, "assertion_error"
    attrs,               \* the attributes __init__ has assigned on self
    own_session          \* the ClientSession __init__ creates: "none", "open", "closed"

ctorVars == <<synthesizer_config, logger_given, session_given, constructed, attrs,
              own_session>>

VARIABLES
    played,              \* history: the events taken off the agent's output queue, in order, each
                         \* with whether it was interrupted and with the tracker it carried
    signaled             \* the agent_response_tracker objects that have been set

playVars == <<played, signaled>>

VARIABLES
    instances,           \* the workers constructed so far, in order: class and output_queue object
    queues               \* the items each asyncio.Queue object holds, in order

ownerVars == <<instances, queues>>

\* the variables of the objects a worker or an agent does not hold
otherVars == <<synthVars, transcriberVars, threadVars, mp3Vars, ctorVars, playVars, ownerVars>>

\* the variables other than the worker's and the agent's that a
\* SynthesisResult does not hold
nonSynthVars == <<transcriberVars, threadVars, mp3Vars, ctorVars, playVars, ownerVars>>

vars == <<workerVars, agentVars, synthVars, transcriberVars, threadVars, mp3Vars,
         ctorVars, playVars, ownerVars>>

\* No SynthesisResult has been created
NoSynthesis ==
    /\ synthesizer = "none"
    /\ audio_data = <<>>
    /\ chunk_size = 1
    /\ message_text = <<>>
    /\ chunk_i = 0
    /\ chunks = <<>>
    /\ exhausted = FALSE
    /\ up_to = <<>>

\* No transcriber has been constructed
NoTranscriber ==
    /\ audio_encoding = "linear16"
    /\ transcriber_is_muted = FALSE
    /\ sent = <<>>

\* No ThreadAsyncWorker has been constructed
NoThread ==
    /\ worker_thread = "none"
    /\ input_janus_queue = <<>>
    /\ output_janus_queue = <<>>
    /\ thread_got = <<>>
    /\ thread_put = <<>>

\* No MP3 response is being streamed
NoMp3 ==
    /\ generator = "none"
    /\ has_span = FALSE
    /\ span_ended = FALSE
    /\ response = <<>>
    /\ response_i = 0
    /\ send_task = "none"
    /\ pushed = <<>>
    /\ yielded_chunks = <<>>

\* No synthesizer is being constructed
NoConstruction ==
    /\ synthesizer_config = [audio_encoding |-> "linear16", sampling_rate |-> 8000]
    /\ logger_given = FALSE
    /\ session_given = FALSE
    /\ constructed = "no"
    /\ attrs = {}
    /\ own_session = "none"

\* Nothing has been taken off the agent's output queue
NoPlay ==
    /\ played = <<>>
    /\ signaled = {}

\* No second worker has been constructed
NoInstances ==
    /\ instances = <<>>
    /\ queues = <<>>

NoOthers ==
    /\ NoSynthesis /\ NoTranscriber /\ NoThread /\ NoMp3 /\ NoConstruction /\ NoPlay
    /\ NoInstances

NoNonSynth ==
    NoTranscriber /\ NoThread /\ NoMp3 /\ NoConstruction /\ NoPlay /\ NoInstances

\* agent_config, agent_input and function_call while no agent is modelled or no
\* turn is running (None)
NoConfig == [generate_responses |-> FALSE, send_filler_audio |-> FALSE,
             end_conversation_on_goodbye |-> FALSE,
             allow_agent_to_be_cut_off |-> FALSE, actions |-> FALSE]
NoInput == [type |-> "none", tracker |-> FALSE]
NoCall == [name |-> "none", arguments |-> "none"]
NoResult == [turn |-> NoEvent, text |-> "", should_stop |-> FALSE]
NoDispatch == [turn |-> NoEvent, call |-> NoCall, has_id |-> FALSE]

Call(op, ev, ret) == [op |-> op, ev |-> ev, ret |-> ret]

\* RespondAgent is an InterruptableWorker: kind "agent" runs the same _run_loop
\* with RespondAgent.process modelled step by step
IsInterruptableWorker == kind \in {"interruptable", "agent"}

\* The value of last after a call or step. The record is kept for the two worker
\* loops; the agent's properties read its queues and its transcript.
Record(op, ev, ret) == IF kind = "agent" THEN last ELSE Call(op, ev, ret)

TaskDone(t) == t \in {"returned", "raised", "cancelled"}

\* ------------------------------------------------------ InterruptableEvent

\* InterruptableEvent.interrupt with the guard dropped
interrupt_unguarded(isInt, flag) == [ret |-> TRUE, flag |-> TRUE]

\* InterruptableEvent.interrupt: the value returned and the flag afterwards
interrupt(isInt, flag) ==
    IF ~isInt THEN [ret |-> FALSE, flag |-> flag]
    ELSE [ret |-> TRUE, flag |-> TRUE]

\* InterruptableEvent.is_interrupted never reporting an interruption
is_interrupted_never(e) == FALSE

\* InterruptableEvent.is_interrupted
is_interrupted(e) == is_interruptable[e] /\ interruption_event[e]

\* -------------------------------------------------------------- AsyncWorker

Init ==
    /\ kind \in {"queue", "interruptable"}
    /\ nextEv = 0
    /\ is_interruptable = [e \in Events |-> TRUE]
    /\ interruption_event = [e \in Events |-> FALSE]
    /\ input_queue = <<>>
    /\ output_queue = <<>>
    /\ worker_task = "none"
    /\ worker_cancel = FALSE
    /\ current_task = "none"
    /\ task_cancel = FALSE
    /\ interruptable_event = NoEvent
    /\ item = NoEvent
    /\ last = Call("init", NoEvent, FALSE)
    /\ started = <<>>
    /\ dropped = {}
    /\ finished = {}
    /\ failed = {}
    /\ terminated = FALSE
    /\ agent_config = NoConfig
    /\ is_muted = FALSE
    /\ payload = [e \in Events |-> "none"]
    /\ transcript = <<>>
    /\ actions_queue = <<>>
    /\ apc = "none"
    /\ agent_input = NoInput
    /\ generated = <<>>
    /\ function_call = NoCall
    /\ yielded = 0
    /\ skipped = {}
    /\ model_raised = {}
    /\ responded = NoResult
    /\ called = NoDispatch
    /\ goodbye_detected = {}
    /\ NoOthers

\* AsyncWorker.start
Start ==
    /\ worker_task = "none"
    /\ worker_task' = "get"
    /\ last' = Record("start", NoEvent, TRUE)
    /\ UNCHANGED <<kind, nextEv, is_interruptable, interruption_event, input_queue,
                   output_queue, worker_cancel, current_task, task_cancel,
                   interruptable_event, item, started, dropped, finished, failed, terminated>>
    /\ UNCHANGED <<agentVars, otherVars>>

\* A producer constructs the next event (InterruptableEvent.__init__) and hands it
\* to AsyncWorker.consume_nonblocking
Consume(isInt) ==
    /\ nextEv < NEvents
    /\ nextEv' = nextEv + 1
    /\ is_interruptable' = [is_interruptable EXCEPT ![nextEv + 1] = isInt]
    /\ input_queue' = Append(input_queue, nextEv + 1)
    /\ last' = Record("consume", nextEv + 1, isInt)
    /\ UNCHANGED <<kind, interruption_event, output_queue, worker_task, worker_cancel,
                   current_task, task_cancel, interruptable_event, item, started,
                   dropped, finished, failed, terminated>>
    /\ UNCHANGED <<agentVars, otherVars>>

\* Any holder of event e calls e.interrupt()
Interrupt(e) ==
    /\ IsInterruptableWorker
    /\ e \in 1..nextEv
    /\ LET r == interrupt(is_interruptable[e], interruption_event[e]) IN
        /\ interruption_event' = [interruption_event EXCEPT ![e] = r.flag]
        /\ last' = Record("interrupt", e, r.ret)
    /\ UNCHANGED <<kind, nextEv, is_interruptable, input_queue, output_queue,
                   worker_task, worker_cancel, current_task, task_cancel,
                   interruptable_event, item, started, dropped, finished, failed, terminated>>
    /\ UNCHANGED <<agentVars, otherVars>>

\* AsyncWorker.produce_nonblocking, called from inside process(item)
produce_nonblocking(x) == Append(output_queue, x)

\* AsyncWorker.terminate with no worker_task: returns False, changes nothing
TerminateNotStarted ==
    /\ worker_task = "none"
    /\ last' = Record("terminate", NoEvent, FALSE)
    /\ UNCHANGED <<kind, nextEv, is_interruptable, interruption_event, input_queue,
                   output_queue, worker_task, worker_cancel, current_task, task_cancel,
                   interruptable_event, item, started, dropped, finished, failed, terminated>>
    /\ UNCHANGED <<agentVars, otherVars>>

\* AsyncWorker.terminate: worker_task.cancel(). Task.cancel() returns False on a
\* finished task. Otherwise it cancels what the task is waiting for; when that is
\* the process() task and it is not done, only that task is marked (the worker
\* task itself is not), else the worker task is marked.
Terminate ==
    /\ worker_task # "none"
    /\ IF worker_task = "done"
       THEN /\ last' = Record("terminate", NoEvent, FALSE)
            /\ UNCHANGED <<worker_cancel, task_cancel, terminated>>
       ELSE /\ last' = Record("terminate", NoEvent, TRUE)
            /\ terminated' = TRUE
            /\ IF worker_task = "await" /\ ~TaskDone(current_task)
               THEN task_cancel' = TRUE /\ UNCHANGED worker_cancel
               ELSE worker_cancel' = TRUE /\ UNCHANGED task_cancel
    /\ UNCHANGED <<kind, nextEv, is_interruptable, interruption_event, input_queue,
                   output_queue, worker_task, current_task, interruptable_event, item,
                   started, dropped, finished, failed>>
    /\ UNCHANGED <<agentVars, otherVars>>

\* The worker task receives the CancelledError while waiting in input_queue.get():
\* nothing is dequeued. AsyncQueueWorker catches it and returns (lines 95-96);
\* in InterruptableWorker the get is outside the try and the task ends cancelled.
CancelledInGet ==
    /\ worker_task = "get"
    /\ worker_cancel
    /\ worker_task' = "done"
    /\ worker_cancel' = FALSE
    /\ last' = Record("loop_cancelled", NoEvent, FALSE)
    /\ UNCHANGED <<kind, nextEv, is_interruptable, interruption_event, input_queue,
                   output_queue, current_task, task_cancel, interruptable_event, item,
                   started, dropped, finished, failed, terminated>>
    /\ UNCHANGED <<agentVars, otherVars>>

\* ----------------------------------------------------------- AsyncQueueWorker

\* the except Exception branch ending the loop instead of going on
OnProcessException_stops == "done"

\* Where the run loop goes after process raised an Exception: it is logged and the
\* loop goes on (AsyncQueueWorker lines 97-98, InterruptableWorker lines 221-222)
OnProcessException == "get"

\* item = await self.input_queue.get(); await self.process(item), up to the first
\* suspension inside process
QDequeue ==
    /\ kind = "queue"
    /\ worker_task = "get"
    /\ ~worker_cancel
    /\ input_queue # <<>>
    /\ item' = Head(input_queue)
    /\ input_queue' = Tail(input_queue)
    /\ started' = Append(started, Head(input_queue))
    /\ worker_task' = "process"
    /\ last' = Record("dequeue", Head(input_queue), TRUE)
    /\ UNCHANGED <<kind, nextEv, is_interruptable, interruption_event, output_queue,
                   worker_cancel, current_task, task_cancel, interruptable_event,
                   dropped, finished, failed, terminated>>
    /\ UNCHANGED <<agentVars, otherVars>>

\* process(item) publishes a result and suspends again
QProcessEmit ==
    /\ kind = "queue"
    /\ worker_task = "process"
    /\ ~worker_cancel
    /\ Len(output_queue) < MaxOut
    /\ output_queue' = produce_nonblocking([type |-> "Event", turn |-> item])
    /\ last' = Record("emit", item, TRUE)
    /\ UNCHANGED <<kind, nextEv, is_interruptable, interruption_event, input_queue,
                   worker_task, worker_cancel, current_task, task_cancel,
                   interruptable_event, item, started, dropped, finished, failed, terminated>>
    /\ UNCHANGED <<agentVars, otherVars>>

\* process(item) returns; the loop is back at input_queue.get()
QProcessReturn ==
    /\ kind = "queue"
    /\ worker_task = "process"
    /\ ~worker_cancel
    /\ worker_task' = "get"
    /\ finished' = finished \cup {item}
    /\ last' = Record("return", item, TRUE)
    /\ UNCHANGED <<kind, nextEv, is_interruptable, interruption_event, input_queue,
                   output_queue, worker_cancel, current_task, task_cancel,
                   interruptable_event, item, started, dropped, failed, terminated>>
    /\ UNCHANGED <<agentVars, otherVars>>

\* process(item) raises an Exception
QProcessRaise ==
    /\ kind = "queue"
    /\ worker_task = "process"
    /\ ~worker_cancel
    /\ worker_task' = OnProcessException
    /\ finished' = finished \cup {item}
    /\ failed' = failed \cup {item}
    /\ last' = Record("raise", item, FALSE)
    /\ UNCHANGED <<kind, nextEv, is_interruptable, interruption_event, input_queue,
                   output_queue, worker_cancel, current_task, task_cancel,
                   interruptable_event, item, started, dropped, terminated>>
    /\ UNCHANGED <<agentVars, otherVars>>

\* The CancelledError of terminate() is thrown into process(item) where it is
\* suspended. process is abstract here: it either handles the error and returns,
\* as its docstring asks (lines 101-104), and the loop goes on, or lets it through
\* and the loop returns (lines 95-96).
QProcessCancelled ==
    /\ kind = "queue"
    /\ worker_task = "process"
    /\ worker_cancel
    /\ worker_cancel' = FALSE
    /\ finished' = finished \cup {item}
    /\ \/ worker_task' = "get" /\ last' = Record("cancel_handled", item, TRUE)
       \/ worker_task' = "done" /\ last' = Record("cancel_raised", item, FALSE)
    /\ UNCHANGED <<kind, nextEv, is_interruptable, interruption_event, input_queue,
                   output_queue, current_task, task_cancel, interruptable_event, item,
                   started, dropped, failed, terminated>>
    /\ UNCHANGED <<agentVars, otherVars>>

\* ------------------------------------------------------- InterruptableWorker

\* line 223 left out: the event stays as it was
ForceNotInterruptable_skipped(e) == is_interruptable

\* self.interruptable_event.is_interruptable = False (line 223)
ForceNotInterruptable(e) == [is_interruptable EXCEPT ![e] = FALSE]

\* cancel_current_task without the is_interruptable test
CanCancel_any_event ==
    /\ current_task # "none"
    /\ ~TaskDone(current_task)

\* The condition of cancel_current_task (lines 239-243)
CanCancel ==
    /\ current_task # "none"
    /\ ~TaskDone(current_task)
    /\ is_interruptable[interruptable_event]

\* the run loop going back to input_queue.get() without awaiting the task
AfterCreateTask_not_awaited == "get"

\* Where the run loop is once it has made the task: at 'await self.current_task'
\* (lines 216-218)
AfterCreateTask == "await"

\* item = await self.input_queue.get(); an interrupted item is skipped (lines
\* 213-214), any other becomes the current event and gets a task that has not run
\* yet (lines 215-216), and the loop waits for it (line 218)
Dequeue ==
    /\ IsInterruptableWorker
    /\ worker_task = "get"
    /\ ~worker_cancel
    /\ input_queue # <<>>
    /\ item' = Head(input_queue)
    /\ input_queue' = Tail(input_queue)
    /\ IF is_interrupted(Head(input_queue))
       THEN /\ dropped' = dropped \cup {Head(input_queue)}
            /\ last' = Record("drop", Head(input_queue), FALSE)
            /\ UNCHANGED <<interruptable_event, current_task, worker_task>>
       ELSE /\ interruptable_event' = Head(input_queue)
            /\ current_task' = "created"
            /\ worker_task' = AfterCreateTask
            /\ last' = Record("dequeue", Head(input_queue), TRUE)
            /\ UNCHANGED dropped
    /\ UNCHANGED <<kind, nextEv, is_interruptable, interruption_event, output_queue,
                   worker_cancel, task_cancel, started, finished, failed, terminated>>
    /\ UNCHANGED <<agentVars, otherVars>>

\* InterruptableWorker.cancel_current_task
CancelCurrentTask ==
    /\ IsInterruptableWorker
    /\ IF CanCancel
       THEN /\ task_cancel' = TRUE
            /\ last' = Record("cancel_current_task", interruptable_event, TRUE)
       ELSE /\ last' = Record("cancel_current_task", interruptable_event, FALSE)
            /\ UNCHANGED task_cancel
    /\ UNCHANGED <<kind, nextEv, is_interruptable, interruption_event, input_queue,
                   output_queue, worker_task, worker_cancel, current_task,
                   interruptable_event, item, started, dropped, finished, failed, terminated>>
    /\ UNCHANGED <<agentVars, otherVars>>

\* The first step of the task made in line 216. A task cancelled before it ever
\* ran ends cancelled without entering process: no try block of process is active
\* yet. Otherwise process runs to its first suspension.
TaskFirstStep ==
    /\ kind = "interruptable"
    /\ current_task = "created"
    /\ IF task_cancel
       THEN /\ current_task' = "cancelled"
            /\ task_cancel' = FALSE
            /\ last' = Record("cancelled_unstarted", interruptable_event, FALSE)
            /\ UNCHANGED started
       ELSE /\ current_task' = "suspended"
            /\ started' = Append(started, interruptable_event)
            /\ last' = Record("process", interruptable_event, TRUE)
            /\ UNCHANGED task_cancel
    /\ UNCHANGED <<kind, nextEv, is_interruptable, interruption_event, input_queue,
                   output_queue, worker_task, worker_cancel, interruptable_event, item,
                   dropped, finished, failed, terminated>>
    /\ UNCHANGED <<agentVars, otherVars>>

\* process(item) publishes a result (produce_interruptable_event_nonblocking) and
\* suspends again
ProcessEmit ==
    /\ kind = "interruptable"
    /\ current_task = "suspended"
    /\ ~task_cancel
    /\ Len(output_queue) < MaxOut
    /\ output_queue' = produce_nonblocking([type |-> "Event", turn |-> interruptable_event])
    /\ last' = Record("emit", interruptable_event, TRUE)
    /\ UNCHANGED <<kind, nextEv, is_interruptable, interruption_event, input_queue,
                   worker_task, worker_cancel, current_task, task_cancel,
                   interruptable_event, item, started, dropped, finished, failed, terminated>>
    /\ UNCHANGED <<agentVars, otherVars>>

\* process(item) returns: the task is done, its waiter is not resumed yet
ProcessReturn ==
    /\ kind = "interruptable"
    /\ current_task = "suspended"
    /\ ~task_cancel
    /\ current_task' = "returned"
    /\ last' = Record("return", interruptable_event, TRUE)
    /\ UNCHANGED <<kind, nextEv, is_interruptable, interruption_event, input_queue,
                   output_queue, worker_task, worker_cancel, task_cancel,
                   interruptable_event, item, started, dropped, finished, failed, terminated>>
    /\ UNCHANGED <<agentVars, otherVars>>

\* process(item) raises an Exception (RespondAgent.process: the ValueError of
\* line 325, an assertion or a model error; only CancelledError is caught there)
ProcessRaise ==
    /\ kind = "interruptable"
    /\ current_task = "suspended"
    /\ ~task_cancel
    /\ current_task' = "raised"
    /\ failed' = failed \cup {interruptable_event}
    /\ last' = Record("raise", interruptable_event, FALSE)
    /\ UNCHANGED <<kind, nextEv, is_interruptable, interruption_event, input_queue,
                   output_queue, worker_task, worker_cancel, task_cancel,
                   interruptable_event, item, started, dropped, finished, terminated>>
    /\ UNCHANGED <<agentVars, otherVars>>

\* The CancelledError reaches process where it is suspended, inside its try block:
\* RespondAgent.process catches it and returns (lines 367-368)
ProcessCancelled ==
    /\ kind = "interruptable"
    /\ current_task = "suspended"
    /\ task_cancel
    /\ current_task' = "returned"
    /\ task_cancel' = FALSE
    /\ last' = Record("cancel_handled", interruptable_event, TRUE)
    /\ UNCHANGED <<kind, nextEv, is_interruptable, interruption_event, input_queue,
                   output_queue, worker_task, worker_cancel, interruptable_event, item,
                   started, dropped, finished, failed, terminated>>
    /\ UNCHANGED <<agentVars, otherVars>>

\* await self.current_task resumes (lines 217-224). A CancelledError, the task's
\* own or one due in the worker task, ends the loop (lines 219-220); a result or
\* an Exception leads to lines 223-224 and back to the top.
LoopResume ==
    /\ IsInterruptableWorker
    /\ worker_task = "await"
    /\ TaskDone(current_task)
    /\ IF worker_cancel \/ current_task = "cancelled"
       THEN /\ worker_task' = "done"
            /\ worker_cancel' = FALSE
            /\ last' = Record("loop_cancelled", interruptable_event, FALSE)
            /\ UNCHANGED <<is_interruptable, current_task, finished>>
       ELSE /\ worker_task' = IF current_task = "raised" THEN OnProcessException ELSE "get"
            /\ is_interruptable' = ForceNotInterruptable(interruptable_event)
            /\ current_task' = "none"
            /\ finished' = finished \cup {interruptable_event}
            /\ last' = Record("resume", interruptable_event, current_task = "returned")
            /\ UNCHANGED worker_cancel
    /\ UNCHANGED <<kind, nextEv, interruption_event, input_queue, output_queue,
                   task_cancel, interruptable_event, item, started, dropped, failed,
                   terminated>>
    /\ UNCHANGED <<agentVars, otherVars>>

\* ------------------------------------------------------------ specification

Next ==
    \/ Start
    \/ \E b \in BOOLEAN : Consume(b)
    \/ \E e \in Events : Interrupt(e)
    \/ TerminateNotStarted
    \/ Terminate
    \/ CancelledInGet
    \/ QDequeue
    \/ QProcessEmit
    \/ QProcessReturn
    \/ QProcessRaise
    \/ QProcessCancelled
    \/ Dequeue
    \/ CancelCurrentTask
    \/ TaskFirstStep
    \/ ProcessEmit
    \/ ProcessReturn
    \/ ProcessRaise
    \/ ProcessCancelled
    \/ LoopResume

Spec == Init /\ [][Next]_vars

\* --------------------------------------------------------------- RespondAgent

\* bounds of the agent model: agent inputs constructed, items generate_response
\* yields in all turns together
NInputs == 1
MaxItems == 2

\* The variants of AgentInput a producer may enqueue; "invalid" is an AgentInput
\* that is neither a TranscriptionAgentInput nor an ActionResultAgentInput
InputTypes == {"transcription", "action_result", "action_result_quiet", "invalid"}

\* The FunctionCall items a stream may hold: name is a configured generic action
\* ("lookup"), a configured Vonage/Twilio phone-call action ("phone_call") or no
\* configured action ("unknown"); arguments is a JSON object without or with the
\* key user_message, or not JSON at all
FunctionCalls ==
    {[name |-> "lookup", arguments |-> "plain"],
     [name |-> "lookup", arguments |-> "user_message"],
     [name |-> "lookup", arguments |-> "bad_json"],
     [name |-> "phone_call", arguments |-> "user_message"],
     [name |-> "unknown", arguments |-> "user_message"]}

\* The FunctionCall items the streams of AgentSpec hold
TurnCalls ==
    {[name |-> "lookup", arguments |-> "user_message"],
     [name |-> "phone_call", arguments |-> "user_message"],
     [name |-> "unknown", arguments |-> "user_message"]}

Configs ==
    [generate_responses : BOOLEAN, send_filler_audio : BOOLEAN,
     end_conversation_on_goodbye : BOOLEAN, allow_agent_to_be_cut_off : BOOLEAN,
     actions : BOOLEAN]

\* InterruptableAgentResponseEvent as put on the output queue; turn is the agent
\* input being processed when it was produced (kept for the properties)
AgentResponseEvent(type, text, isInt, tracker, turn) ==
    [type |-> type, text |-> text, is_interruptable |-> isInt, tracker |-> tracker,
     turn |-> turn]

\* produce_interruptable_agent_response_event_nonblocking putting the event at the
\* front of the queue
produce_agent_response_at_front(q, type, text, isInt, tracker, turn) ==
    <<AgentResponseEvent(type, text, isInt,
                         IF tracker = "none" THEN "fresh" ELSE tracker, turn)>> \o q

\* InterruptableWorker.produce_interruptable_agent_response_event_nonblocking: the
\* event carries the tracker given, or a new asyncio.Event when none is given
produce_agent_response(q, type, text, isInt, tracker, turn) ==
    Append(q, AgentResponseEvent(type, text, isInt,
                                 IF tracker = "none" THEN "fresh" ELSE tracker, turn))

\* Transcript.add_human_message / add_action_finish_log / add_action_start_log
TranscriptEntry(entry, turn) == [entry |-> entry, turn |-> turn]

\* The state after BaseAgent.__init__ and attach_transcript, the worker not started
AgentInit ==
    /\ kind = "agent"
    /\ nextEv = 0
    /\ is_interruptable = [e \in Events |-> TRUE]
    /\ interruption_event = [e \in Events |-> FALSE]
    /\ input_queue = <<>>
    /\ output_queue = <<>>
    /\ worker_task = "none"
    /\ worker_cancel = FALSE
    /\ current_task = "none"
    /\ task_cancel = FALSE
    /\ interruptable_event = NoEvent
    /\ item = NoEvent
    /\ last = Call("init", NoEvent, FALSE)
    /\ started = <<>>
    /\ dropped = {}
    /\ finished = {}
    /\ failed = {}
    /\ terminated = FALSE
    /\ agent_config \in Configs
    /\ is_muted = FALSE
    /\ payload = [e \in Events |-> "none"]
    /\ transcript = <<>>
    /\ actions_queue = <<>>
    /\ apc = "none"
    /\ agent_input = NoInput
    /\ generated = <<>>
    /\ function_call = NoCall
    /\ yielded = 0
    /\ skipped = {}
    /\ model_raised = {}
    /\ responded = NoResult
    /\ called = NoDispatch
    /\ goodbye_detected = {}
    /\ NoOthers

\* A producer wraps an AgentInput in an InterruptableEvent and puts it on the
\* agent's input queue
AgentConsume(type, isInt) ==
    /\ nextEv < NInputs
    /\ nextEv' = nextEv + 1
    /\ is_interruptable' = [is_interruptable EXCEPT ![nextEv + 1] = isInt]
    /\ payload' = [payload EXCEPT ![nextEv + 1] = type]
    /\ input_queue' = Append(input_queue, nextEv + 1)
    /\ last' = Record("consume", nextEv + 1, isInt)
    /\ UNCHANGED <<kind, interruption_event, output_queue, worker_task, worker_cancel,
                   current_task, task_cancel, interruptable_event, item, started,
                   dropped, finished, failed, terminated>>
    /\ UNCHANGED <<agent_config, is_muted, transcript, actions_queue, apc, agent_input,
                   generated, function_call, yielded, skipped, model_raised,
                   responded, called, goodbye_detected>>
    /\ UNCHANGED otherVars

\* The conversation assigns BaseAgent.is_muted. The field is read once, at the
\* head of process, so of the assignments made between two reads only the last
\* one shows; it is taken here, when the task is created and has not yet run.
SetMuted(b) ==
    /\ is_muted # b
    /\ current_task = "created"
    /\ is_muted' = b
    /\ last' = Record("set_muted", NoEvent, b)
    /\ UNCHANGED <<kind, nextEv, is_interruptable, interruption_event, input_queue,
                   output_queue, worker_task, worker_cancel, current_task, task_cancel,
                   interruptable_event, item, started, dropped, finished, failed,
                   terminated>>
    /\ UNCHANGED <<agent_config, payload, transcript, actions_queue, apc, agent_input,
                   generated, function_call, yielded, skipped, model_raised,
                   responded, called, goodbye_detected>>
    /\ UNCHANGED otherVars

\* process leaving out add_human_message
TurnOpening_no_human_message(q, tr, type, turn) ==
    [out |-> IF agent_config.send_filler_audio
             THEN produce_agent_response(q, "FillerAudio", "", TRUE, "none", turn)
             ELSE q,
     transcript |-> IF type = "transcription"
                    THEN tr
                    ELSE Append(tr, TranscriptEntry("action_finish", turn))]

\* process never sending filler audio
TurnOpening_no_filler(q, tr, type, turn) ==
    [out |-> q,
     transcript |-> Append(tr, TranscriptEntry(IF type = "transcription"
                                               THEN "human" ELSE "action_finish",
                                               turn))]

\* RespondAgent.process, lines 300-335, for an input that gets a response: the
\* transcript entry of the input, then the FillerAudio event if configured
TurnOpening(q, tr, type, turn) ==
    [out |-> IF agent_config.send_filler_audio
             THEN produce_agent_response(q, "FillerAudio", "", TRUE, "none", turn)
             ELSE q,
     transcript |-> Append(tr, TranscriptEntry(IF type = "transcription"
                                               THEN "human" ELSE "action_finish",
                                               turn))]

\* process returning for a quiet action result without add_action_finish_log
QuietActionResult_unrecorded(tr, turn) == tr

\* RespondAgent.process, lines 309-318, for an ActionResultAgentInput with
\* is_quiet: the action-finish entry, and process returns
QuietActionResult(tr, turn) == Append(tr, TranscriptEntry("action_finish", turn))

\* process going on although the agent is muted
MutedReturn_ignored == FALSE

\* process returns at once when the agent is muted (lines 294-296)
MutedReturn == is_muted

\* The first step of the task running RespondAgent.process(item), up to its first
\* suspension (lines 293-345). A task cancelled before it ran never enters
\* process. has_tracker: whether the input carries an agent_response_tracker.
AgentFirstStep(has_tracker) ==
    /\ current_task = "created"
    /\ IF task_cancel
       THEN /\ current_task' = "cancelled"
            /\ task_cancel' = FALSE
            /\ last' = Record("cancelled_unstarted", interruptable_event, FALSE)
            /\ UNCHANGED <<started, failed, output_queue, transcript, apc, agent_input,
                           generated, function_call>>
       ELSE /\ started' = Append(started, interruptable_event)
            /\ last' = Record("process", interruptable_event, TRUE)
            /\ UNCHANGED task_cancel
            /\ generated' = <<>>
            /\ function_call' = NoCall
            /\ LET type == payload[interruptable_event] IN
               IF MutedReturn
               THEN /\ current_task' = "returned"
                    /\ UNCHANGED <<failed, output_queue, transcript, apc, agent_input>>
               ELSE IF type = "invalid"
                       THEN /\ current_task' = "raised"
                            /\ failed' = failed \cup {interruptable_event}
                            /\ UNCHANGED <<output_queue, transcript, apc, agent_input>>
                       ELSE IF type = "action_result_quiet"
                       THEN /\ current_task' = "returned"
                            /\ transcript' = QuietActionResult(transcript,
                                                               interruptable_event)
                            /\ UNCHANGED <<failed, output_queue, apc, agent_input>>
                       ELSE LET o == TurnOpening(output_queue, transcript, type,
                                                 interruptable_event) IN
                            /\ current_task' = "suspended"
                            /\ agent_input' = [type |-> type, tracker |-> has_tracker]
                            /\ transcript' = o.transcript
                            /\ output_queue' = o.out
                            /\ apc' = IF agent_config.generate_responses
                                      THEN "stream" ELSE "respond"
                            /\ UNCHANGED failed
    /\ UNCHANGED <<kind, nextEv, is_interruptable, interruption_event, input_queue,
                   worker_task, worker_cancel, interruptable_event, item, dropped,
                   finished, terminated>>
    /\ skipped' = IF ~task_cancel /\ is_muted
                  THEN skipped \cup {interruptable_event} ELSE skipped
    /\ UNCHANGED <<agent_config, is_muted, payload, actions_queue, yielded,
                   model_raised, responded, called, goodbye_detected>>
    /\ UNCHANGED otherVars

\* The text of the n-th text fragment of a stream
FragmentTexts == <<"Hi there.", "How can I help?", "Anything else?", "Take care.">>

StreamItem(kind_, text, isInt, call) ==
    [item |-> kind_, text |-> text, is_interruptable |-> isInt, call |-> call]

TextItems(g) == SelectSeq(g, LAMBDA x : x.item = "text")

\* The tracker handed on with a Message of the stream (line 258)
InputTracker == IF agent_input.tracker THEN "input" ELSE "none"

\* process ends: its task is done and its locals are gone; err: the model
\* (respond or generate_response) raised in this turn
EndProcessWith(how, err) ==
    /\ current_task' = how
    /\ apc' = "none"
    /\ agent_input' = NoInput
    /\ generated' = generated
    /\ function_call' = NoCall
    /\ failed' = IF how = "raised" THEN failed \cup {interruptable_event} ELSE failed
    /\ model_raised' = IF err THEN model_raised \cup {interruptable_event}
                       ELSE model_raised

EndProcess(how) == EndProcessWith(how, FALSE)

\* what the agent leaves alone while it runs process
AgentFrame ==
    /\ UNCHANGED <<kind, nextEv, is_interruptable, interruption_event, input_queue,
                   worker_task, worker_cancel, interruptable_event, item, started,
                   dropped, finished, terminated>>
    /\ UNCHANGED <<agent_config, is_muted, payload, skipped>>
    /\ UNCHANGED otherVars

\* handle_generate_response emitting each Message ahead of the earlier ones
EmitFragment_reversed(q, text, isInt) ==
    produce_agent_response_at_front(q, "Message", text,
        agent_config.allow_agent_to_be_cut_off /\ isInt, InputTracker,
        interruptable_event)

\* handle_generate_response passing on the fragment's flag without
\* agent_config.allow_agent_to_be_cut_off
EmitFragment_ignores_config(q, text, isInt) ==
    produce_agent_response(q, "Message", text, isInt, InputTracker, interruptable_event)

\* handle_generate_response, lines 255-259: the Message event of a text fragment
EmitFragment(q, text, isInt) ==
    produce_agent_response(q, "Message", text,
        agent_config.allow_agent_to_be_cut_off /\ isInt, InputTracker,
        interruptable_event)

\* generate_response yields a text fragment (lines 248-261)
GenerateText(isInt) ==
    /\ apc = "stream"
    /\ ~task_cancel
    /\ yielded < MaxItems
    /\ yielded' = yielded + 1
    /\ LET text == FragmentTexts[Len(TextItems(generated)) + 1] IN
        /\ generated' = Append(generated, StreamItem("text", text, isInt, NoCall))
        /\ output_queue' = EmitFragment(output_queue, text, isInt)
    /\ last' = Record("fragment", interruptable_event, isInt)
    /\ UNCHANGED <<current_task, task_cancel, failed, transcript, actions_queue, apc,
                   agent_input, function_call, model_raised>>
    /\ AgentFrame
    /\ UNCHANGED <<responded, called, goodbye_detected>>

\* handle_generate_response keeping the first FunctionCall of the stream
GenerateFunctionCall_keeps_first(fc) ==
    /\ apc = "stream"
    /\ ~task_cancel
    /\ yielded < MaxItems
    /\ yielded' = yielded + 1
    /\ generated' = Append(generated, StreamItem("function_call", "", FALSE, fc))
    /\ function_call' = IF function_call = NoCall THEN fc ELSE function_call
    /\ last' = Record("function_call", interruptable_event, TRUE)
    /\ UNCHANGED <<current_task, task_cancel, failed, output_queue, transcript,
                   actions_queue, apc, agent_input, model_raised>>
    /\ AgentFrame
    /\ UNCHANGED <<responded, called, goodbye_detected>>

\* generate_response yields a FunctionCall (lines 249-251)
GenerateFunctionCall(fc) ==
    /\ apc = "stream"
    /\ ~task_cancel
    /\ yielded < MaxItems
    /\ yielded' = yielded + 1
    /\ generated' = Append(generated, StreamItem("function_call", "", FALSE, fc))
    /\ function_call' = fc
    /\ last' = Record("function_call", interruptable_event, TRUE)
    /\ UNCHANGED <<current_task, task_cancel, failed, output_queue, transcript,
                   actions_queue, apc, agent_input, model_raised>>
    /\ AgentFrame
    /\ UNCHANGED <<responded, called, goodbye_detected>>

\* action.is_interruptable, the property the action class declares: the generic
\* action is interruptable, the phone-call actions are not
ActionIsInterruptable(name) == name = "lookup"

\* call_function without the assertions on the caller identifier
call_function_unchecked_caller_id(fc, has_id, q, tr, aq, turn) ==
    IF fc.name = "unknown"
    THEN [out |-> q, transcript |-> tr, actions |-> aq, raised |-> FALSE]
    ELSE IF fc.arguments = "bad_json"
    THEN [out |-> q, transcript |-> tr, actions |-> aq, raised |-> TRUE]
    ELSE LET q1 == IF fc.arguments = "user_message"
                   THEN produce_agent_response(q, "Message", "one moment", TRUE,
                                               "user_message", turn)
                   ELSE q
         IN [out |-> q1,
             transcript |-> Append(tr, TranscriptEntry("action_start", turn)),
             actions |-> Append(aq, [action |-> fc.name, turn |-> turn,
                                     is_interruptable |->
                                         ActionIsInterruptable(fc.name),
                                     tracker |-> IF fc.arguments = "user_message"
                                                 THEN "user_message" ELSE "none"]),
             raised |-> FALSE]

\* call_function not handing its tracker to the acknowledgement Message
call_function_ack_untracked(fc, has_id, q, tr, aq, turn) ==
    IF fc.name = "unknown"
    THEN [out |-> q, transcript |-> tr, actions |-> aq, raised |-> FALSE]
    ELSE IF fc.arguments = "bad_json"
    THEN [out |-> q, transcript |-> tr, actions |-> aq, raised |-> TRUE]
    ELSE LET q1 == IF fc.arguments = "user_message"
                   THEN produce_agent_response(q, "Message", "one moment", TRUE,
                                               "none", turn)
                   ELSE q
         IN IF fc.name = "phone_call" /\ ~has_id
            THEN [out |-> q1, transcript |-> tr, actions |-> aq, raised |-> TRUE]
            ELSE [out |-> q1,
                  transcript |-> Append(tr, TranscriptEntry("action_start", turn)),
                  actions |-> Append(aq, [action |-> fc.name, turn |-> turn,
                                          is_interruptable |->
                                              ActionIsInterruptable(fc.name),
                                          tracker |-> IF fc.arguments = "user_message"
                                                      THEN "user_message" ELSE "none"]),
                  raised |-> FALSE]

\* RespondAgent.call_function (lines 378-430) on the queues and the transcript;
\* has_id: the agent input holds the caller identifier the phone-call action needs.
\* raised: it ended in an exception (json.loads, or the assertion of lines 397/407)
call_function(fc, has_id, q, tr, aq, turn) ==
    IF fc.name = "unknown"
    THEN [out |-> q, transcript |-> tr, actions |-> aq, raised |-> FALSE]
    ELSE IF fc.arguments = "bad_json"
    THEN [out |-> q, transcript |-> tr, actions |-> aq, raised |-> TRUE]
    ELSE LET q1 == IF fc.arguments = "user_message"
                   THEN produce_agent_response(q, "Message", "one moment", TRUE,
                                               "user_message", turn)
                   ELSE q
         IN IF fc.name = "phone_call" /\ ~has_id
            THEN [out |-> q1, transcript |-> tr, actions |-> aq, raised |-> TRUE]
            ELSE [out |-> q1,
                  transcript |-> Append(tr, TranscriptEntry("action_start", turn)),
                  actions |-> Append(aq, [action |-> fc.name, turn |-> turn,
                                          is_interruptable |->
                                              ActionIsInterruptable(fc.name),
                                          tracker |-> IF fc.arguments = "user_message"
                                                      THEN "user_message" ELSE "none"]),
                  raised |-> FALSE]

\* After the response handler returned should_stop False (lines 347-366): process
\* waits for the goodbye task if there is one, else it returns
AfterHandler ==
    IF agent_config.end_conversation_on_goodbye
    THEN /\ apc' = "goodbye"
         /\ UNCHANGED <<current_task, failed, agent_input, generated, function_call,
                        model_raised>>
    ELSE EndProcess("returned")

\* The stream ends (lines 262-266): the last FunctionCall is dispatched if actions
\* are configured, and handle_generate_response returns False
GenerateEnd(has_id) ==
    /\ apc = "stream"
    /\ ~task_cancel
    /\ last' = Record("stream_end", interruptable_event, TRUE)
    /\ IF function_call # NoCall /\ agent_config.actions
       THEN LET r == call_function(function_call, has_id, output_queue, transcript,
                                   actions_queue, interruptable_event) IN
            /\ output_queue' = r.out
            /\ transcript' = r.transcript
            /\ actions_queue' = r.actions
            /\ called' = [turn |-> interruptable_event, call |-> function_call,
                          has_id |-> has_id \/ function_call.name # "phone_call"]
            /\ IF r.raised THEN EndProcess("raised") ELSE AfterHandler
       ELSE /\ UNCHANGED <<output_queue, transcript, actions_queue, called>>
            /\ AfterHandler
    /\ UNCHANGED task_cancel
    /\ UNCHANGED yielded
    /\ AgentFrame
    /\ UNCHANGED <<responded, goodbye_detected>>

\* generate_response raises: nothing in handle_generate_response or process
\* catches an Exception, so the task ends with it
GenerateRaise ==
    /\ apc = "stream"
    /\ ~task_cancel
    /\ last' = Record("raise", interruptable_event, FALSE)
    /\ EndProcessWith("raised", TRUE)
    /\ UNCHANGED <<task_cancel, output_queue, transcript, actions_queue>>
    /\ UNCHANGED yielded
    /\ AgentFrame
    /\ UNCHANGED <<responded, called, goodbye_detected>>

\* respond returns (text, should_stop) (lines 274-291, 347-352): a Message for a
\* non-empty text, and should_stop is passed on only then
RespondReturn(text, should_stop) ==
    /\ apc = "respond"
    /\ ~task_cancel
    /\ last' = Record("respond", interruptable_event, should_stop)
    /\ LET q1 == IF text # ""
                 THEN produce_agent_response(output_queue, "Message", text,
                          agent_config.allow_agent_to_be_cut_off, "none",
                          interruptable_event)
                 ELSE output_queue
           stop == IF text # "" THEN should_stop ELSE FALSE
       IN IF stop
          THEN /\ output_queue' = produce_agent_response(q1, "Stop", "", TRUE, "none",
                                                         interruptable_event)
               /\ EndProcess("returned")
          ELSE /\ output_queue' = q1
               /\ AfterHandler
    /\ responded' = [turn |-> interruptable_event, text |-> text,
                     should_stop |-> should_stop]
    /\ UNCHANGED <<task_cancel, transcript, actions_queue>>
    /\ UNCHANGED <<yielded, called, goodbye_detected>>
    /\ AgentFrame

\* respond raises (lines 279-282): handle_respond returns True, so process emits
\* Stop and returns
RespondRaise ==
    /\ apc = "respond"
    /\ ~task_cancel
    /\ last' = Record("respond_raise", interruptable_event, FALSE)
    /\ output_queue' = produce_agent_response(output_queue, "Stop", "", TRUE, "none",
                                              interruptable_event)
    /\ EndProcessWith("returned", TRUE)
    /\ UNCHANGED <<task_cancel, transcript, actions_queue>>
    /\ UNCHANGED yielded
    /\ AgentFrame
    /\ UNCHANGED <<responded, called, goodbye_detected>>

\* asyncio.wait_for(goodbye_detected_task, 0.1) ends (lines 354-366): with True
\* (Stop is emitted), with False or with a TimeoutError (nothing), or with an
\* exception of the goodbye model, which process lets through
GoodbyeResults == {"goodbye", "not_goodbye", "timeout", "error"}

\* process not emitting Stop when the goodbye task resolves true
Goodbye_without_stop(result) ==
    /\ apc = "goodbye"
    /\ ~task_cancel
    /\ last' = Record(result, interruptable_event, result = "goodbye")
    /\ output_queue' = output_queue
    /\ EndProcess(IF result = "error" THEN "raised" ELSE "returned")
    /\ UNCHANGED <<task_cancel, transcript, actions_queue>>
    /\ UNCHANGED yielded
    /\ AgentFrame
    /\ goodbye_detected' = IF result = "goodbye"
                           THEN goodbye_detected \cup {interruptable_event}
                           ELSE goodbye_detected
    /\ UNCHANGED <<responded, called>>

\* process emitting Stop whatever the goodbye task's result
Goodbye_stops_on_any_result(result) ==
    /\ apc = "goodbye"
    /\ ~task_cancel
    /\ last' = Record(result, interruptable_event, result = "goodbye")
    /\ output_queue' = produce_agent_response(output_queue, "Stop", "", TRUE,
                                              "none", interruptable_event)
    /\ EndProcess(IF result = "error" THEN "raised" ELSE "returned")
    /\ UNCHANGED <<task_cancel, transcript, actions_queue>>
    /\ UNCHANGED yielded
    /\ AgentFrame
    /\ goodbye_detected' = IF result = "goodbye"
                           THEN goodbye_detected \cup {interruptable_event}
                           ELSE goodbye_detected
    /\ UNCHANGED <<responded, called>>

\* process at its wait for the goodbye task (lines 354-366)
Goodbye(result) ==
    /\ apc = "goodbye"
    /\ ~task_cancel
    /\ last' = Record(result, interruptable_event, result = "goodbye")
    /\ output_queue' = IF result = "goodbye"
                       THEN produce_agent_response(output_queue, "Stop", "", TRUE,
                                                   "none", interruptable_event)
                       ELSE output_queue
    /\ EndProcess(IF result = "error" THEN "raised" ELSE "returned")
    /\ UNCHANGED <<task_cancel, transcript, actions_queue>>
    /\ UNCHANGED yielded
    /\ AgentFrame
    /\ goodbye_detected' = IF result = "goodbye"
                           THEN goodbye_detected \cup {interruptable_event}
                           ELSE goodbye_detected
    /\ UNCHANGED <<responded, called>>

\* The CancelledError reaches process at its suspension point, inside the try
\* block: it is caught and process returns (lines 367-368)
AgentCancelled ==
    /\ current_task = "suspended"
    /\ task_cancel
    /\ task_cancel' = FALSE
    /\ last' = Record("cancel_handled", interruptable_event, TRUE)
    /\ EndProcess("returned")
    /\ UNCHANGED <<output_queue, transcript, actions_queue>>
    /\ UNCHANGED yielded
    /\ AgentFrame
    /\ UNCHANGED <<responded, called, goodbye_detected>>

\* The environment of the agent: producers enqueue inputs, holders interrupt the
\* events still waiting in the input queue (an interrupt of an event already taken
\* off the queue is covered by Next) and call cancel_current_task, the
\* conversation mutes and unmutes, and the model, the goodbye detector and the
\* stream answer. No branch of the agent reads the input's tracker or a
\* fragment's is_interruptable; here every input carries a tracker and every
\* fragment is interruptable, and DispatchSpec draws both.
AgentNext ==
    \/ Start
    \/ \E t \in InputTypes, b \in BOOLEAN : AgentConsume(t, b)
    \/ \E b \in BOOLEAN : SetMuted(b)
    \/ \E i \in 1..Len(input_queue) : Interrupt(input_queue[i])
    \/ CancelCurrentTask
    \/ Dequeue
    \/ AgentFirstStep(TRUE)
    \/ GenerateText(TRUE)
    \/ \E fc \in TurnCalls : GenerateFunctionCall(fc)
    \/ \E b \in BOOLEAN : GenerateEnd(b)
    \/ GenerateRaise
    \/ \E t \in {"", "Hi there."}, b \in BOOLEAN : RespondReturn(t, b)
    \/ RespondRaise
    \/ \E r \in GoodbyeResults : Goodbye(r)
    \/ AgentCancelled
    \/ LoopResume

AgentSpec == AgentInit /\ [][AgentNext]_vars

\* A streaming agent left to itself: no holder interrupts or cancels and the agent
\* is not muted, and the streams hold every kind of FunctionCall. call_function
\* has no suspension point, so nothing of the environment can fall inside it.
DispatchInit ==
    /\ AgentInit
    /\ agent_config.generate_responses

DispatchNext ==
    \/ Start
    \/ \E t \in {"transcription", "action_result"} : AgentConsume(t, TRUE)
    \/ Dequeue
    \/ \E b \in BOOLEAN : AgentFirstStep(b)
    \/ \E b \in BOOLEAN : GenerateText(b)
    \/ \E fc \in FunctionCalls : GenerateFunctionCall(fc)
    \/ \E b \in BOOLEAN : GenerateEnd(b)
    \/ \E r \in GoodbyeResults : Goodbye(r)
    \/ LoopResume

DispatchSpec == DispatchInit /\ [][DispatchNext]_vars

\* -------------------------------------------------------------- synthesizer
\* base_synthesizer.py: the SynthesisResult built by
\* FillerAudio.create_synthesis_result and by
\* BaseSynthesizer.create_synthesis_result_from_wav, with should_encode_as_wav
\* false (the chunks are passed on as they are cut). Slicing does not look at
\* what a byte or a character is, so each is named by its position.
\* Times are counted in sample periods: the argument seconds is
\* t / sampling_rate, and len(output_bytes) / sampling_rate is len(output_bytes)
\* periods.

MaxAudio == 4
MaxChunk == 3
MaxText == 3
MaxSeconds == 5
MaxCalls == 2

Positions(n) == [i \in 1..n |-> i]

Least(a, b) == IF a < b THEN a ELSE b

\* seq[i:j] of Python, for 0 <= i <= j
Slice(seq, i, j) == SubSeq(seq, Least(i, Len(seq)) + 1, Least(j, Len(seq)))

\* seq[:k] of Python: a negative k counts from the end
SliceTo(seq, k) ==
    IF k < 0
    THEN Slice(seq, 0, IF Len(seq) + k < 0 THEN 0 ELSE Len(seq) + k)
    ELSE Slice(seq, 0, k)

ChunkResult(chunk, is_last_chunk) == [chunk |-> chunk, is_last_chunk |-> is_last_chunk]

\* The body of the loop of chunk_generator for the value i of the range
ChunkAt(data, i, size) ==
    IF i + size > Len(data)
    THEN ChunkResult(Slice(data, i, Len(data)), TRUE)
    ELSE ChunkResult(Slice(data, i, i + size), FALSE)

\* What a call of a get_message_up_to returns, or that it raised
Returned(text) == [raised |-> FALSE, text |-> text]
Raised == [raised |-> TRUE, text |-> <<>>]

\* BaseSynthesizer.get_message_cutoff_from_total_response_length, the seconds
\* and the size of the output in sample periods. seconds / 0.0 is a
\* ZeroDivisionError; int() of a quotient of non-negative numbers is its floor.
\* The quotients are exact here, where the code rounds each to a double.
get_message_cutoff_from_total_response_length(text, seconds, size_of_output) ==
    IF text = <<>> THEN Returned(text)
    ELSE IF size_of_output = 0 THEN Raised
    ELSE Returned(SliceTo(text, (seconds * Len(text)) \div size_of_output))

\* SynthesisResult.get_message_up_to: the lambda each method passes
get_message_up_to(seconds) ==
    IF synthesizer = "filler"
    THEN Returned(message_text)
    ELSE get_message_cutoff_from_total_response_length(message_text, seconds,
                                                        Len(audio_data))

\* The state after one of the two methods has returned its SynthesisResult;
\* no worker and no agent is running
SynthInit ==
    /\ kind = "none"
    /\ nextEv = 0
    /\ is_interruptable = [e \in Events |-> TRUE]
    /\ interruption_event = [e \in Events |-> FALSE]
    /\ input_queue = <<>>
    /\ output_queue = <<>>
    /\ worker_task = "none"
    /\ worker_cancel = FALSE
    /\ current_task = "none"
    /\ task_cancel = FALSE
    /\ interruptable_event = NoEvent
    /\ item = NoEvent
    /\ last = Call("init", NoEvent, FALSE)
    /\ started = <<>>
    /\ dropped = {}
    /\ finished = {}
    /\ failed = {}
    /\ terminated = FALSE
    /\ agent_config = NoConfig
    /\ is_muted = FALSE
    /\ payload = [e \in Events |-> "none"]
    /\ transcript = <<>>
    /\ actions_queue = <<>>
    /\ apc = "none"
    /\ agent_input = NoInput
    /\ generated = <<>>
    /\ function_call = NoCall
    /\ yielded = 0
    /\ skipped = {}
    /\ model_raised = {}
    /\ responded = NoResult
    /\ called = NoDispatch
    /\ goodbye_detected = {}
    /\ NoNonSynth
    /\ synthesizer \in {"filler", "from_wav"}
    /\ audio_data \in {Positions(n) : n \in 0..MaxAudio}
    /\ chunk_size \in 1..MaxChunk
    /\ message_text \in {Positions(n) : n \in 0..MaxText}
    /\ chunk_i = 0
    /\ chunks = <<>>
    /\ exhausted = FALSE
    /\ up_to = <<>>

\* The consumer asks chunk_generator for its next item and the range has one
YieldChunk ==
    /\ ~exhausted
    /\ chunk_i < Len(audio_data)
    /\ chunks' = Append(chunks, ChunkAt(audio_data, chunk_i, chunk_size))
    /\ chunk_i' = chunk_i + chunk_size
    /\ UNCHANGED <<synthesizer, audio_data, chunk_size, message_text, exhausted, up_to>>
    /\ UNCHANGED <<workerVars, agentVars, nonSynthVars>>

\* The consumer asks chunk_generator for its next item and the range is used up
ChunksEnd ==
    /\ ~exhausted
    /\ chunk_i >= Len(audio_data)
    /\ exhausted' = TRUE
    /\ UNCHANGED <<synthesizer, audio_data, chunk_size, message_text, chunk_i, chunks,
                   up_to>>
    /\ UNCHANGED <<workerVars, agentVars, nonSynthVars>>

\* A holder of the SynthesisResult calls get_message_up_to(seconds)
GetMessageUpTo(seconds) ==
    /\ Len(up_to) < MaxCalls
    /\ up_to' = Append(up_to, [seconds |-> seconds, result |-> get_message_up_to(seconds)])
    /\ UNCHANGED <<synthesizer, audio_data, chunk_size, message_text, chunk_i, chunks,
                   exhausted>>
    /\ UNCHANGED <<workerVars, agentVars, nonSynthVars>>

SynthNext ==
    \/ YieldChunk
    \/ ChunksEnd
    \/ \E seconds \in 0..MaxSeconds : GetMessageUpTo(seconds)

SynthSpec == SynthInit /\ [][SynthNext]_vars

\* -------------------------------------------------------------- transcriber
\* base_transcriber.py: AbstractTranscriber with BaseAsyncTranscriber and
\* BaseThreadAsyncTranscriber. The model holds the transcriber as a producer
\* into its own input queue; the run loop is left to the subclasses.

MaxChunkLen == 4
MaxSends == 2

\* No worker has been started and nothing is queued
NoWorker ==
    /\ nextEv = 0
    /\ is_interruptable = [e \in Events |-> TRUE]
    /\ interruption_event = [e \in Events |-> FALSE]
    /\ input_queue = <<>>
    /\ output_queue = <<>>
    /\ worker_task = "none"
    /\ worker_cancel = FALSE
    /\ current_task = "none"
    /\ task_cancel = FALSE
    /\ interruptable_event = NoEvent
    /\ item = NoEvent
    /\ last = Call("init", NoEvent, FALSE)
    /\ started = <<>>
    /\ dropped = {}
    /\ finished = {}
    /\ failed = {}
    /\ terminated = FALSE

\* No agent is modelled
NoAgent ==
    /\ agent_config = NoConfig
    /\ is_muted = FALSE
    /\ payload = [e \in Events |-> "none"]
    /\ transcript = <<>>
    /\ actions_queue = <<>>
    /\ apc = "none"
    /\ agent_input = NoInput
    /\ generated = <<>>
    /\ function_call = NoCall
    /\ yielded = 0
    /\ skipped = {}
    /\ model_raised = {}
    /\ responded = NoResult
    /\ called = NoDispatch
    /\ goodbye_detected = {}

\* What a call returns, or that it raised
Value(v) == [raised |-> FALSE, value |-> v]
Error == [raised |-> TRUE, value |-> <<>>]

\* audioop.lin2ulaw of a fragment of zero bytes: a fragment that is not a whole
\* number of samples of width bytes is an audioop.error, and each sample of
\* silence gives the one byte 0xFF
lin2ulaw(fragment, width) ==
    IF Len(fragment) % width # 0 THEN Error
    ELSE Value([i \in 1..(Len(fragment) \div width) |-> 255])

\* AbstractTranscriber.create_silent_chunk
create_silent_chunk(size, sample_width) ==
    LET linear_audio == [i \in 1..size |-> 0]
    IN  IF audio_encoding = "linear16" THEN Value(linear_audio)
        ELSE lin2ulaw(linear_audio, sample_width)

\* The state after the constructor of either transcriber class
TranscriberInit ==
    /\ kind \in {"async_transcriber", "thread_transcriber"}
    /\ NoWorker
    /\ NoAgent
    /\ NoSynthesis
    /\ NoThread
    /\ NoMp3
    /\ NoConstruction
    /\ NoPlay
    /\ NoInstances
    /\ audio_encoding \in {"linear16", "mulaw"}
    /\ transcriber_is_muted = FALSE
    /\ sent = <<>>

outsideTranscriber ==
    <<kind, nextEv, is_interruptable, interruption_event, output_queue, worker_task,
      worker_cancel, current_task, task_cancel, interruptable_event, item, last,
      started, dropped, finished, failed, terminated, agentVars, synthVars,
      threadVars, mp3Vars, ctorVars, playVars, ownerVars>>

\* AbstractTranscriber.mute
mute ==
    /\ transcriber_is_muted' = TRUE
    /\ UNCHANGED <<audio_encoding, sent, input_queue, outsideTranscriber>>

\* AbstractTranscriber.unmute
unmute ==
    /\ transcriber_is_muted' = FALSE
    /\ UNCHANGED <<audio_encoding, sent, input_queue, outsideTranscriber>>

\* BaseAsyncTranscriber.send_audio and BaseThreadAsyncTranscriber.send_audio,
\* the same body; consume_nonblocking is not reached when create_silent_chunk
\* raises
send_audio(chunk) ==
    /\ Len(sent) < MaxSends
    /\ LET arg == IF ~transcriber_is_muted THEN Value(chunk)
                  ELSE create_silent_chunk(Len(chunk), 2)
       IN  /\ input_queue' = IF arg.raised THEN input_queue
                             ELSE Append(input_queue, arg.value)
           /\ sent' = Append(sent, [chunk |-> chunk, is_muted |-> transcriber_is_muted,
                                    raised |-> arg.raised])
    /\ UNCHANGED <<audio_encoding, transcriber_is_muted, outsideTranscriber>>

TranscriberNext ==
    \/ mute
    \/ unmute
    \/ \E n \in 0..MaxChunkLen : send_audio(Positions(n))

TranscriberSpec == TranscriberInit /\ [][TranscriberNext]_vars

\* -------------------------------------------------------- ThreadAsyncWorker
\* worker.py 46-86. The items given to the worker and the items the thread
\* produces are numbered in the order they are made. The two janus queues are
\* FIFO queues with a put and a get on each side. One action of a forwarder is
\* one turn of its loop; terminate() is AsyncWorker.terminate (Terminate,
\* TerminateNotStarted above).

MaxThreadItems == 2

\* The state after ThreadAsyncWorker.__init__
ThreadInit ==
    /\ kind = "thread"
    /\ NoWorker
    /\ NoAgent
    /\ NoSynthesis
    /\ NoTranscriber
    /\ NoThread
    /\ NoMp3
    /\ NoConstruction
    /\ NoPlay
    /\ NoInstances

threadFrame ==
    <<kind, nextEv, is_interruptable, interruption_event, current_task, task_cancel,
      interruptable_event, item, started, dropped, finished, failed, agentVars,
      synthVars, transcriberVars, mp3Vars, ctorVars, playVars, ownerVars>>

\* ThreadAsyncWorker.start: the thread is started and the forwarding task
\* created; the task's first step starts the two forwarders, which wait in get()
ThreadStart ==
    /\ worker_task = "none"
    /\ worker_thread' = "running"
    /\ worker_task' = "forwarding"
    /\ last' = Record("start", NoEvent, TRUE)
    /\ UNCHANGED <<input_queue, output_queue, worker_cancel, terminated,
                   input_janus_queue, output_janus_queue, thread_got, thread_put>>
    /\ UNCHANGED threadFrame

\* AsyncWorker.consume_nonblocking of the next item
ThreadConsume ==
    /\ nextEv < MaxThreadItems
    /\ nextEv' = nextEv + 1
    /\ input_queue' = Append(input_queue, nextEv + 1)
    /\ last' = Record("consume", nextEv + 1, TRUE)
    /\ UNCHANGED <<kind, is_interruptable, interruption_event, output_queue, worker_task,
                   worker_cancel, current_task, task_cancel, interruptable_event, item,
                   started, dropped, finished, failed, terminated>>
    /\ UNCHANGED <<agentVars, otherVars>>

\* the forwarder putting the item at the wrong end of the thread-side queue
ForwardedToThread_at_front(q, x) == <<x>> \o q

\* _forward_to_thread, line 75: input_janus_queue.async_q.put_nowait(item)
ForwardedToThread(q, x) == Append(q, x)

\* One turn of _forward_to_thread. A task marked for cancellation gets the
\* CancelledError at its next step, in get(), and takes nothing.
ForwardToThread ==
    /\ worker_task = "forwarding"
    /\ ~worker_cancel
    /\ input_queue # <<>>
    /\ input_queue' = Tail(input_queue)
    /\ input_janus_queue' = ForwardedToThread(input_janus_queue, Head(input_queue))
    /\ UNCHANGED <<output_queue, worker_task, worker_cancel, terminated, last,
                   worker_thread, output_janus_queue, thread_got, thread_put>>
    /\ UNCHANGED threadFrame

\* One turn of _forward_from_thead
ForwardFromThread ==
    /\ worker_task = "forwarding"
    /\ ~worker_cancel
    /\ output_janus_queue # <<>>
    /\ output_janus_queue' = Tail(output_janus_queue)
    /\ output_queue' = Append(output_queue, Head(output_janus_queue))
    /\ UNCHANGED <<input_queue, worker_task, worker_cancel, terminated, last,
                   worker_thread, input_janus_queue, thread_got, thread_put>>
    /\ UNCHANGED threadFrame

\* The CancelledError reaches run_thread_forwarding in gather(): the two
\* forwarders are cancelled with it and the task returns (lines 69-70)
ForwardingCancelled ==
    /\ worker_task = "forwarding"
    /\ worker_cancel
    /\ worker_task' = "done"
    /\ worker_cancel' = FALSE
    /\ last' = Record("loop_cancelled", NoEvent, FALSE)
    /\ UNCHANGED <<input_queue, output_queue, terminated, worker_thread,
                   input_janus_queue, output_janus_queue, thread_got, thread_put>>
    /\ UNCHANGED threadFrame

\* The thread's _run_loop takes an item: input_janus_queue.sync_q.get()
ThreadGet ==
    /\ worker_thread = "running"
    /\ input_janus_queue # <<>>
    /\ input_janus_queue' = Tail(input_janus_queue)
    /\ thread_got' = Append(thread_got, Head(input_janus_queue))
    /\ UNCHANGED <<input_queue, output_queue, worker_task, worker_cancel, terminated,
                   last, worker_thread, output_janus_queue, thread_put>>
    /\ UNCHANGED threadFrame

\* The thread's _run_loop produces an item: output_janus_queue.sync_q.put(x)
ThreadPut ==
    /\ worker_thread = "running"
    /\ Len(thread_put) < MaxThreadItems
    /\ LET x == Len(thread_put) + 1
       IN  /\ output_janus_queue' = Append(output_janus_queue, x)
           /\ thread_put' = Append(thread_put, x)
    /\ UNCHANGED <<input_queue, output_queue, worker_task, worker_cancel, terminated,
                   last, worker_thread, input_janus_queue, thread_got>>
    /\ UNCHANGED threadFrame

ThreadNext ==
    \/ ThreadStart
    \/ ThreadConsume
    \/ ForwardToThread
    \/ ForwardFromThread
    \/ ThreadGet
    \/ ThreadPut
    \/ TerminateNotStarted
    \/ Terminate
    \/ ForwardingCancelled

ThreadSpec == ThreadInit /\ [][ThreadNext]_vars

\* ------------------------------------------------------------ MP3 streaming
\* base_synthesizer.py 292-352: experimental_mp3_streaming_output_generator and
\* send_chunks. The MiniaudioWorker is a ThreadAsyncWorker (the forwarders
\* above); its thread, whose code is outside this source tree, is taken as the
\* decoder of the specification: it turns what it is given into
\* (pcm_chunk, is_last) pairs and flags the pair it makes for the null sentinel.
\* The chunks of the response are numbered, the sentinel None is 0, and
\* should_encode_as_wav is false (a chunk is yielded as it was popped).

MaxResponse == 2

None == 0

\* The state when the generator object has been made and not yet run
Mp3Init ==
    /\ kind = "miniaudio"
    /\ NoWorker
    /\ NoAgent
    /\ NoSynthesis
    /\ NoTranscriber
    /\ NoThread
    /\ NoConstruction
    /\ NoPlay
    /\ NoInstances
    /\ generator = "unstarted"
    /\ has_span \in BOOLEAN
    /\ span_ended = FALSE
    /\ response \in {Positions(n) : n \in 0..MaxResponse}
    /\ response_i = 0
    /\ send_task = "none"
    /\ pushed = <<>>
    /\ yielded_chunks = <<>>

mp3Frame ==
    <<kind, nextEv, is_interruptable, interruption_event, current_task, task_cancel,
      interruptable_event, item, last, started, dropped, finished, failed, agentVars,
      synthVars, transcriberVars, ctorVars, playVars, ownerVars>>

\* the generator ending without its finally clause
TerminateDecoder_skipped == UNCHANGED <<worker_cancel, terminated>>

\* finally: miniaudio_worker.terminate() (line 342), which is
\* worker_task.cancel() on the forwarding task
TerminateDecoder ==
    /\ worker_cancel' = (worker_task = "forwarding")
    /\ terminated' = (terminated \/ worker_task = "forwarding")

\* The first __anext__: lines 298-330. The worker is started, the task for
\* send_chunks is created, and the new output queue is empty, so the generator
\* waits in output_queue.get()
GeneratorStart ==
    /\ generator = "unstarted"
    /\ worker_thread' = "running"
    /\ worker_task' = "forwarding"
    /\ send_task' = "running"
    /\ generator' = "waiting"
    /\ UNCHANGED <<input_queue, output_queue, worker_cancel, terminated,
                   input_janus_queue, output_janus_queue, thread_got, thread_put>>
    /\ UNCHANGED <<has_span, span_ended, response, response_i, pushed, yielded_chunks>>
    /\ UNCHANGED mp3Frame

\* send_chunks, lines 350-351: one turn of the async for
SendChunk ==
    /\ send_task = "running"
    /\ response_i < Len(response)
    /\ response_i' = response_i + 1
    /\ input_queue' = Append(input_queue, response[response_i + 1])
    /\ pushed' = Append(pushed, response[response_i + 1])
    /\ UNCHANGED <<output_queue, worker_task, worker_cancel, terminated, threadVars>>
    /\ UNCHANGED <<generator, has_span, span_ended, response, send_task, yielded_chunks>>
    /\ UNCHANGED mp3Frame

\* send_chunks, line 352: the response is exhausted and the sentinel is put
SendSentinel ==
    /\ send_task = "running"
    /\ response_i = Len(response)
    /\ input_queue' = Append(input_queue, None)
    /\ pushed' = Append(pushed, None)
    /\ send_task' = "done"
    /\ UNCHANGED <<output_queue, worker_task, worker_cancel, terminated, threadVars>>
    /\ UNCHANGED <<generator, has_span, span_ended, response, response_i, yielded_chunks>>
    /\ UNCHANGED mp3Frame

\* Reading the response raises inside iter_any(): send_chunks ends with the
\* exception, which stays in its task; nobody awaits the task (line 325)
SendFails ==
    /\ send_task = "running"
    /\ send_task' = "raised"
    /\ UNCHANGED <<input_queue, output_queue, worker_task, worker_cancel, terminated,
                   threadVars>>
    /\ UNCHANGED <<generator, has_span, span_ended, response, response_i, pushed,
                   yielded_chunks>>
    /\ UNCHANGED mp3Frame

\* The decoder thread takes an item and puts the pair it makes of it
Decode ==
    /\ worker_thread = "running"
    /\ input_janus_queue # <<>>
    /\ LET x == Head(input_janus_queue)
           pair == IF x = None THEN ChunkResult(None, TRUE) ELSE ChunkResult(x, FALSE)
       IN  /\ input_janus_queue' = Tail(input_janus_queue)
           /\ thread_got' = Append(thread_got, x)
           /\ output_janus_queue' = Append(output_janus_queue, pair)
           /\ thread_put' = Append(thread_put, pair)
    /\ UNCHANGED <<input_queue, output_queue, worker_task, worker_cancel, terminated,
                   worker_thread>>
    /\ UNCHANGED mp3Vars
    /\ UNCHANGED mp3Frame

\* The generator is resumed in output_queue.get() with a pair and yields it
\* (lines 330-334)
GeneratorWake ==
    /\ generator = "waiting"
    /\ output_queue # <<>>
    /\ output_queue' = Tail(output_queue)
    /\ yielded_chunks' = Append(yielded_chunks, Head(output_queue))
    /\ generator' = "yielded"
    /\ UNCHANGED <<input_queue, worker_task, worker_cancel, terminated, threadVars>>
    /\ UNCHANGED <<has_span, span_ended, response, response_i, send_task, pushed>>
    /\ UNCHANGED mp3Frame

\* The consumer asks for the next chunk: the generator goes on after the yield
\* (lines 336-338, then 330-334). get() does not suspend when a pair is there.
GeneratorNext ==
    /\ generator = "yielded"
    /\ IF yielded_chunks[Len(yielded_chunks)].is_last_chunk /\ has_span
       THEN /\ span_ended' = TRUE
            /\ generator' = "broke"
            /\ TerminateDecoder
            /\ UNCHANGED <<output_queue, yielded_chunks>>
       ELSE /\ IF output_queue # <<>>
               THEN /\ output_queue' = Tail(output_queue)
                    /\ yielded_chunks' = Append(yielded_chunks, Head(output_queue))
                    /\ UNCHANGED generator
               ELSE /\ generator' = "waiting"
                    /\ UNCHANGED <<output_queue, yielded_chunks>>
            /\ UNCHANGED <<span_ended, worker_cancel, terminated>>
    /\ UNCHANGED <<input_queue, worker_task, threadVars>>
    /\ UNCHANGED <<has_span, response, response_i, send_task, pushed>>
    /\ UNCHANGED mp3Frame

\* The task iterating the generator is cancelled while the generator waits in
\* get(): except CancelledError: pass, then the finally clause (lines 339-342)
GeneratorCancelled ==
    /\ generator = "waiting"
    /\ generator' = "cancelled"
    /\ TerminateDecoder
    /\ UNCHANGED <<input_queue, output_queue, worker_task, threadVars>>
    /\ UNCHANGED <<has_span, span_ended, response, response_i, send_task, pushed,
                   yielded_chunks>>
    /\ UNCHANGED mp3Frame

\* aclose(): GeneratorExit is raised at the yield and the finally clause runs;
\* a generator that never ran is closed without running
GeneratorClose ==
    /\ generator \in {"unstarted", "yielded"}
    /\ generator' = "closed"
    /\ IF generator = "yielded" THEN TerminateDecoder
       ELSE UNCHANGED <<worker_cancel, terminated>>
    /\ UNCHANGED <<input_queue, output_queue, worker_task, threadVars>>
    /\ UNCHANGED <<has_span, span_ended, response, response_i, send_task, pushed,
                   yielded_chunks>>
    /\ UNCHANGED mp3Frame

Mp3Next ==
    \/ GeneratorStart
    \/ SendChunk
    \/ SendSentinel
    \/ SendFails
    \/ ForwardToThread
    \/ Decode
    \/ ForwardFromThread
    \/ ForwardingCancelled
    \/ GeneratorWake
    \/ GeneratorNext
    \/ GeneratorCancelled
    \/ GeneratorClose

Mp3Spec == Mp3Init /\ [][Mp3Next]_vars

\* ------------------------------------------------ BaseSynthesizer.__init__
\* base_synthesizer.py 145-169 and tear_down, 344-346

SamplingRates == {8000, 11025, 16000, 22050, 24000, 32000, 44100, 48000}

\* the attributes assigned before the check of the sampling rate (lines 151-155)
ConfigAttrs ==
    {"logger", "synthesizer_config", "base_filler_audio_path",
     "base_back_tracking_audio_path", "base_follow_up_audio_path"}

\* the attributes assigned after it (lines 160-169)
StateAttrs ==
    {"filler_audios", "back_tracking_audios", "follow_up_audios", "aiohttp_session",
     "should_close_session_on_tear_down"}

\* The state before BaseSynthesizer(synthesizer_config, logger, aiohttp_session)
CtorInit ==
    /\ kind = "synthesizer"
    /\ NoWorker
    /\ NoAgent
    /\ NoSynthesis
    /\ NoTranscriber
    /\ NoThread
    /\ NoMp3
    /\ NoPlay
    /\ NoInstances
    /\ synthesizer_config \in [audio_encoding : {"linear16", "mulaw"},
                                sampling_rate : SamplingRates]
    /\ logger_given \in BOOLEAN
    /\ session_given \in BOOLEAN
    /\ constructed = "no"
    /\ attrs = {}
    /\ own_session = "none"

\* the constructor without its assert
SamplingRateAccepted_unchecked(config) == TRUE

\* lines 156-159: the assert passes
SamplingRateAccepted(config) ==
    config.audio_encoding = "mulaw" => config.sampling_rate = 8000

\* BaseSynthesizer.__init__
Construct ==
    /\ constructed = "no"
    /\ IF SamplingRateAccepted(synthesizer_config)
       THEN /\ constructed' = "yes"
            /\ attrs' = ConfigAttrs \cup StateAttrs
            /\ own_session' = IF session_given THEN "none" ELSE "open"
       ELSE /\ constructed' = "assertion_error"
            /\ attrs' = ConfigAttrs
            /\ UNCHANGED own_session
    /\ UNCHANGED <<synthesizer_config, logger_given, session_given>>
    /\ UNCHANGED <<workerVars, agentVars, synthVars, transcriberVars, threadVars, mp3Vars,
                   playVars, ownerVars>>

\* BaseSynthesizer.tear_down: a session the caller gave is left to the caller
tear_down ==
    /\ constructed = "yes"
    /\ own_session # "closed"
    /\ own_session' = IF session_given THEN own_session ELSE "closed"
    /\ constructed' = "torn_down"
    /\ UNCHANGED <<synthesizer_config, logger_given, session_given, attrs>>
    /\ UNCHANGED <<workerVars, agentVars, synthVars, transcriberVars, threadVars, mp3Vars,
                   playVars, ownerVars>>

CtorNext ==
    \/ Construct
    \/ tear_down

CtorSpec == CtorInit /\ [][CtorNext]_vars

\* ------------------------------------------------- the agent's output queue
\* The worker that takes the agent's responses off its output queue is outside
\* this source tree; it is taken from the specification: it raises the
\* completion tracker of a Message event when the audio of the event has
\* finished playing, and does not raise it when the event was interrupted.
\* An asyncio.Event made for one event is an object of its own; the tracker of
\* an agent input is one object, whichever events carry it.

\* The tracker object the k-th event taken off the queue carries
TrackerOf(e, k) ==
    IF e.tracker = "input" THEN <<"input", e.turn>> ELSE <<"own", k>>

\* A streaming agent without actions and goodbye detection, and the worker
\* downstream of it; every input is a transcription
PlayInit ==
    /\ AgentInit
    /\ agent_config.generate_responses
    /\ ~agent_config.actions
    /\ ~agent_config.end_conversation_on_goodbye

\* The downstream worker takes the next event. A holder of the event may have
\* called interrupt() on it before its audio finished (InterruptableEvent.interrupt,
\* is_interrupted); the tracker of a Message that was not interrupted is set.
Play(interrupt_called) ==
    /\ kind = "agent"
    /\ output_queue # <<>>
    /\ LET e == Head(output_queue)
           flag == IF interrupt_called THEN interrupt(e.is_interruptable, FALSE).flag
                   ELSE FALSE
           interrupted == e.is_interruptable /\ flag
           tracker == TrackerOf(e, Len(played) + 1)
       IN  /\ played' = Append(played, [event |-> e, interrupted |-> interrupted,
                                        tracker |-> tracker])
           /\ signaled' = IF e.type = "Message" /\ ~interrupted
                          THEN signaled \cup {tracker} ELSE signaled
    /\ output_queue' = Tail(output_queue)
    /\ UNCHANGED <<kind, nextEv, is_interruptable, interruption_event, input_queue,
                   worker_task, worker_cancel, current_task, task_cancel,
                   interruptable_event, item, last, started, dropped, finished, failed,
                   terminated>>
    /\ UNCHANGED <<agentVars, synthVars, transcriberVars, threadVars, mp3Vars, ctorVars,
                   ownerVars>>

PlayNext ==
    \/ Start
    \/ AgentConsume("transcription", TRUE)
    \/ Dequeue
    \/ \E b \in BOOLEAN : AgentFirstStep(b)
    \/ \E b \in BOOLEAN : GenerateText(b)
    \/ GenerateEnd(TRUE)
    \/ LoopResume
    \/ \E b \in BOOLEAN : Play(b)

PlaySpec == PlayInit /\ [][PlayNext]_vars

\* ------------------------------------------------- workers and their queues
\*
\* Workers constructed side by side (worker.py, lines 16-23, 46-55, 169-182). The
\* default of a parameter is evaluated once, when its def statement runs: each
\* __init__ that declares 'output_queue: asyncio.Queue = asyncio.Queue()' has one
\* queue object for all the calls that leave the argument out.

MaxWorkers == 2
MaxProduced == 2

WorkerClasses ==
    {"AsyncWorker", "AsyncQueueWorker", "ThreadAsyncWorker", "InterruptableWorker"}

\* The class whose __init__ binds output_queue for an instance of cls:
\* AsyncQueueWorker declares none and inherits AsyncWorker's
InitOf(cls) == IF cls = "AsyncQueueWorker" THEN "AsyncWorker" ELSE cls

\* An asyncio.Queue object: the default of a class's __init__, or the one the
\* caller made for the k-th worker
QueueObject(default_of, made_for) == [default_of |-> default_of, made_for |-> made_for]

DefaultQueues == {QueueObject(InitOf(cls), 0) : cls \in WorkerClasses}

\* self.output_queue after __init__ (line 23) of the k-th worker
OutputQueueOf(cls, given, k) ==
    IF given THEN QueueObject("none", k) ELSE QueueObject(InitOf(cls), 0)

\* The module has been imported: the default queues exist and are empty
OwnerInit ==
    /\ kind = "workers"
    /\ NoWorker
    /\ NoAgent
    /\ NoSynthesis
    /\ NoTranscriber
    /\ NoThread
    /\ NoMp3
    /\ NoConstruction
    /\ NoPlay
    /\ instances = <<>>
    /\ queues = [q \in DefaultQueues |-> <<>>]

ownerFrame ==
    <<workerVars, agentVars, synthVars, transcriberVars, threadVars, mp3Vars, ctorVars,
      playVars>>

\* A worker of class cls is constructed, with a new queue of the caller's as
\* output_queue (given) or without the argument
NewWorker(cls, given) ==
    /\ Len(instances) < MaxWorkers
    /\ LET q == OutputQueueOf(cls, given, Len(instances) + 1) IN
       /\ instances' = Append(instances, [class |-> cls, output_queue |-> q])
       /\ queues' = IF given THEN queues @@ (q :> <<>>) ELSE queues
    /\ UNCHANGED ownerFrame

\* AsyncWorker.produce_nonblocking called on worker w (lines 33-34)
Produce(w) ==
    /\ w \in 1..Len(instances)
    /\ LET q == instances[w].output_queue IN
       /\ Len(queues[q]) < MaxProduced
       /\ queues' = [queues EXCEPT ![q] = Append(@, [by |-> w, n |-> Len(@) + 1])]
    /\ UNCHANGED instances
    /\ UNCHANGED ownerFrame

OwnerNext ==
    \/ \E cls \in WorkerClasses, given \in BOOLEAN : NewWorker(cls, given)
    \/ \E w \in 1..MaxWorkers : Produce(w)

OwnerSpec == OwnerInit /\ [][OwnerNext]_vars

\* ------------------------------------------------------------------ helpers

Range(q) == {q[i] : i \in 1..Len(q)}

NoDuplicates(q) == \A i, j \in 1..Len(q) : i # j => q[i] # q[j]

\* the step takes the head off the input queue
Dequeues == input_queue # <<>> /\ input_queue' = Tail(input_queue)

\* ------------------------------------------------------------------- claims

\* C1: a call of interrupt() on an event whose is_interruptable is false returns
\* False and leaves the event's interruption flag as it was, in every state and
\* however often it is repeated.
C1_NonInterruptableIgnoresInterrupt ==
    [][\A e \in Events :
          (last'.op = "interrupt" /\ last'.ev = e /\ ~is_interruptable[e])
              => (last'.ret = FALSE /\ interruption_event'[e] = interruption_event[e])]_vars

\* C1 witness: interrupt() was just refused on a non-interruptable event whose
\* flag is unset
C1_Witness ==
    /\ last.op = "interrupt"
    /\ last.ret = FALSE
    /\ ~is_interruptable[last.ev]
    /\ ~interruption_event[last.ev]

\* C2 as stated: as soon as process(E) has returned, E.is_interruptable is false.
\* Between the end of the process task and the resumption of the run loop it is
\* not.
C2_CompletedIsNotInterruptable ==
    kind = "interruptable" =>
        \A e \in Events :
            ((current_task = "returned" /\ interruptable_event = e) \/ e \in finished)
                => ~is_interruptable[e]

\* C2 amended: once the run loop has resumed after process(E) returned or raised
\* (line 223), E.is_interruptable is false, and every later interrupt(E) returns
\* False and leaves the flag as it was.
C2_FinishedIsNotInterruptable ==
    /\ [](kind = "interruptable" => \A e \in finished : ~is_interruptable[e])
    /\ [][(kind = "interruptable" /\ last'.op = "interrupt" /\ last'.ev \in finished)
             => (last'.ret = FALSE
                 /\ interruption_event'[last'.ev] = interruption_event[last'.ev])]_vars

\* C2 witness: an event that was interrupted while interruptable (its flag is
\* set) has been finished by the loop, and a late interrupt() on it was refused
C2_Witness ==
    /\ kind = "interruptable"
    /\ last.op = "interrupt"
    /\ last.ev \in finished
    /\ last.ret = FALSE
    /\ interruption_event[last.ev]

\* C3: when the run loop dequeues an event that is interruptable and has its flag
\* set, no process task is made for it, nothing is put on the output queue, and
\* the loop is back at input_queue.get(); no dropped event is ever processed.
C3_InterruptedIsDropped ==
    /\ [][(kind = "interruptable" /\ Dequeues
            /\ is_interruptable[Head(input_queue)]
            /\ interruption_event[Head(input_queue)])
             => /\ started' = started
                /\ current_task' = current_task
                /\ output_queue' = output_queue
                /\ worker_task' = "get"]_vars
    /\ [](dropped \cap Range(started) = {})

\* C3 witness: an event was dropped and an event enqueued after it was processed
C3_Witness ==
    /\ kind = "interruptable"
    /\ \E e \in dropped : \E i \in 1..Len(started) : started[i] > e

\* C4: cancel_current_task() returns True and requests the cancellation exactly
\* when a process task exists, is not done, and its event is interruptable;
\* otherwise it returns False and changes nothing; unless terminate() was called,
\* the task of a non-interruptable event is never cancelled.
C4_CancelOnlyInterruptable ==
    /\ [][last'.op = "cancel_current_task" =>
            /\ last'.ret = (/\ current_task \in {"created", "suspended"}
                            /\ is_interruptable[interruptable_event])
            /\ last'.ret => task_cancel'
            /\ ~last'.ret => (task_cancel' = task_cancel /\ current_task' = current_task)]_vars
    /\ []((kind = "interruptable" /\ ~terminated
            /\ (task_cancel \/ current_task = "cancelled"))
             => is_interruptable[interruptable_event])

\* C4 witness: cancel_current_task() was refused while a non-interruptable event
\* is being processed
C4_Witness ==
    /\ last.op = "cancel_current_task"
    /\ last.ret = FALSE
    /\ current_task = "suspended"
    /\ ~is_interruptable[interruptable_event]

\* C5 as stated: cancel_current_task() never ends the run loop: without
\* terminate(), the loop of an InterruptableWorker stays alive.
C5_LoopSurvivesCancel ==
    (kind = "interruptable" /\ ~terminated) => worker_task # "done"

\* C6 as stated: once terminate() has returned True, no item is dequeued.
C6_NoDequeueAfterTerminate ==
    [][terminated => ~Dequeues]_vars

\* C7: an Exception raised by process(item) leaves the run loop alive: the loop
\* goes back to input_queue.get() with the queue as it was, and items are
\* processed in the order they were enqueued.
C7_ExceptionKeepsLoopAlive ==
    /\ [][last'.op = "raise" => worker_task' \in {"get", "await"}]_vars
    /\ [][(kind = "interruptable" /\ worker_task = "await" /\ current_task = "raised"
            /\ ~worker_cancel /\ last'.op = "resume")
             => (worker_task' = "get" /\ input_queue' = input_queue)]_vars
    /\ [](\A i, j \in 1..Len(started) : i < j => started[i] < started[j])

\* C7 witness: process raised for an event and a later event was processed
C7_Witness ==
    \E e \in failed : \E i \in 1..Len(started) : started[i] > e

\* the events of one type that one turn has put on the output queue
TurnEvents(type, turn) ==
    SelectSeq(output_queue, LAMBDA x : x.type = type /\ x.turn = turn)

\* the Message events of a turn that carry a text fragment of the stream: all but
\* the acknowledgement of a function call, which carries its own tracker
FragmentMessages(turn) ==
    SelectSeq(TurnEvents("Message", turn), LAMBDA x : x.tracker # "user_message")

TextsOf(q) == [i \in 1..Len(q) |-> q[i].text]

\* the human-message entries the transcript holds for an agent input
HumanEntries(turn) ==
    SelectSeq(transcript, LAMBDA x : x.entry = "human" /\ x.turn = turn)

\* the turn process was last started for
LastTurn == IF started = <<>> THEN NoEvent ELSE started[Len(started)]

\* C8 as stated: no event is processed twice, every event the loop has taken off
\* the queue was either processed or dropped as interrupted, and without
\* terminate() the loop never stops with events left in the queue.
C8_EveryEventHandledOnce ==
    (kind = "interruptable" /\ ~terminated) =>
        /\ NoDuplicates(started)
        /\ \A e \in 1..nextEv :
              (e \notin Range(input_queue) /\ ~(e = interruptable_event /\ current_task = "created"))
                  => (e \in Range(started)) # (e \in dropped)
        /\ worker_task = "done" => input_queue = <<>>


\* C9: in streaming mode, at every moment of a turn and after it, the Message
\* events the turn has emitted for text fragments are exactly the text fragments
\* generate_response has yielded, one each and in the order yielded; with goodbye
\* detection off no Stop event is ever on the output queue.
C9_OneMessagePerFragmentInOrder ==
    (kind = "agent" /\ agent_config.generate_responses) =>
        /\ LastTurn # NoEvent /\ LastTurn \notin skipped =>
              TextsOf(FragmentMessages(LastTurn)) = TextsOf(TextItems(generated))
        /\ ~agent_config.end_conversation_on_goodbye =>
              \A i \in 1..Len(output_queue) : output_queue[i].type # "Stop"

\* C9 witness: the turn of scenario S1 is over: goodbye detection is off, the
\* stream yielded "Hi there." and "How can I help?" and ended, and the output
\* queue holds these two Message events in that order and no Stop
C9_Witness ==
    /\ kind = "agent"
    /\ agent_config.generate_responses
    /\ ~agent_config.end_conversation_on_goodbye
    /\ ~agent_config.send_filler_audio
    /\ LastTurn \in finished
    /\ payload[LastTurn] = "transcription"
    /\ TextsOf(generated) = <<"Hi there.", "How can I help?">>
    /\ TextsOf(output_queue) = <<"Hi there.", "How can I help?">>
    /\ \A i \in 1..Len(output_queue) : output_queue[i].type = "Message"

\* C10 as stated: once the run loop is done with a TranscriptionAgentInput it was
\* handed, the transcript holds exactly one human-message entry for it.
C10_EveryTranscriptionHasOneHumanEntry ==
    kind = "agent" =>
        \A e \in 1..nextEv :
            (payload[e] = "transcription" /\ e \in (dropped \cup finished))
                => Len(HumanEntries(e)) = 1

\* C10 amended: a TranscriptionAgentInput has exactly one human-message entry from
\* the moment process has started for it with the agent not muted, and none
\* otherwise (dropped as interrupted, cancelled before its task ran, or processed
\* while muted); whenever an agent-response event of its turn is on the output
\* queue, the entry is already in the transcript.
C10_HumanEntryBeforeResponses ==
    kind = "agent" =>
        \A e \in 1..nextEv :
            payload[e] = "transcription" =>
                /\ Len(HumanEntries(e)) =
                      IF e \in Range(started) /\ e \notin skipped THEN 1 ELSE 0
                /\ (\E i \in 1..Len(output_queue) : output_queue[i].turn = e)
                      => Len(HumanEntries(e)) = 1

\* C10 witness: a transcription has its human-message entry and Message events of
\* its turn are on the output queue
C10_Witness ==
    /\ kind = "agent"
    /\ \E e \in 1..nextEv :
          /\ payload[e] = "transcription"
          /\ Len(HumanEntries(e)) = 1
          /\ Len(TurnEvents("Message", e)) >= 1

\* C11 as stated: in a turn in which respond or generate_response raised, no Stop
\* event is emitted, and the Message events of the turn are the ones emitted
\* before the failure (none in non-streaming mode).
C11_ModelErrorEmitsNoStop ==
    kind = "agent" =>
        \A e \in model_raised :
            /\ TurnEvents("Stop", e) = <<>>
            /\ e = LastTurn =>
                  TextsOf(FragmentMessages(e)) = TextsOf(TextItems(generated))

\* C12 as stated: in non-streaming mode, for the result (text, should_stop) that
\* respond returned in a turn, the turn has one Message event if text is not
\* empty and none if it is, and if should_stop is true it has a Stop event, which
\* comes after the Message.
C12_StopWheneverShouldStop ==
    (kind = "agent" /\ responded.turn # NoEvent) =>
        LET e == responded.turn IN
        /\ Len(TurnEvents("Message", e)) = IF responded.text # "" THEN 1 ELSE 0
        /\ responded.should_stop =>
              /\ Len(TurnEvents("Stop", e)) = 1
              /\ \A i, j \in 1..Len(output_queue) :
                    (output_queue[i].turn = e /\ output_queue[i].type = "Message"
                     /\ output_queue[j].turn = e /\ output_queue[j].type = "Stop")
                        => i < j

\* the FunctionCall items among the items of a stream
CallItems(g) == SelectSeq(g, LAMBDA x : x.item = "function_call")

\* the action events a turn has put on the actions queue
TurnActions(turn) == SelectSeq(actions_queue, LAMBDA x : x.turn = turn)

\* the entries of one kind the transcript holds for a turn
TurnEntries(entry, turn) ==
    SelectSeq(transcript, LAMBDA x : x.entry = entry /\ x.turn = turn)

\* the acknowledgement Message events of a turn (they carry call_function's tracker)
AckMessages(turn) ==
    SelectSeq(TurnEvents("Message", turn), LAMBDA x : x.tracker = "user_message")

\* what a dispatch of a function call leaves behind for a turn
Dispatched(turn) ==
    \/ TurnActions(turn) # <<>>
    \/ TurnEntries("action_start", turn) # <<>>
    \/ AckMessages(turn) # <<>>

\* C13: in a streaming turn, while the stream has not ended nothing of a dispatch
\* exists (no acknowledgement, no action-start record, no action event) and the
\* events of the turn are its FillerAudio and one Message per text fragment; a
\* turn dispatches at most once, only with actions configured, only the last
\* FunctionCall of its stream, and its acknowledgement comes after every fragment
\* Message of the turn.
C13_LastCallDispatchedAfterStream ==
    (kind = "agent" /\ agent_config.generate_responses
     /\ LastTurn # NoEvent /\ LastTurn \notin skipped) =>
        LET e == LastTurn
            calls == CallItems(generated)
        IN
        /\ Len(TurnActions(e)) <= 1
        /\ Len(AckMessages(e)) <= 1
        /\ Len(TurnEntries("action_start", e)) <= 1
        /\ apc = "stream" =>
              /\ ~Dispatched(e)
              /\ Len(TurnEvents("Message", e)) = Len(TextItems(generated))
        /\ Dispatched(e) =>
              /\ agent_config.actions
              /\ calls # <<>>
              /\ \A i \in 1..Len(TurnActions(e)) :
                    TurnActions(e)[i].action = calls[Len(calls)].call.name
              /\ \A i, j \in 1..Len(output_queue) :
                    (output_queue[i].turn = e /\ output_queue[i].type = "Message"
                     /\ output_queue[i].tracker # "user_message"
                     /\ output_queue[j].turn = e
                     /\ output_queue[j].tracker = "user_message")
                        => i < j
              /\ TextsOf(FragmentMessages(e)) = TextsOf(TextItems(generated))

\* C13 witness: the stream of a turn held two FunctionCalls for different
\* actions and the action on the actions queue is the one of the second
C13_Witness ==
    /\ kind = "agent"
    /\ agent_config.generate_responses
    /\ Len(CallItems(generated)) = 2
    /\ CallItems(generated)[1].call.name # CallItems(generated)[2].call.name
    /\ Len(TurnActions(LastTurn)) = 1
    /\ TurnActions(LastTurn)[1].action = CallItems(generated)[2].call.name

\* the Message events of a turn that speak the user_message of a function call
UserMessages(turn) ==
    SelectSeq(TurnEvents("Message", turn), LAMBDA x : x.text = "one moment")

\* the FunctionCall handed to call_function names a configured action, its
\* arguments parse, and the caller identifier its action needs is there
PassesPreconditions(c) ==
    c.call.name # "unknown" /\ c.call.arguments # "bad_json" /\ c.has_id

\* what C14 says call_function leaves behind for a call with user_message: one
\* acknowledgement with the tracker call_function made, one action-start record,
\* one action event with that tracker and the action's is_interruptable
AcknowledgedAndQueued(c) ==
    LET e == c.turn IN
    /\ Len(UserMessages(e)) = 1
    /\ UserMessages(e)[1].tracker = "user_message"
    /\ Len(TurnEntries("action_start", e)) = 1
    /\ Len(TurnActions(e)) = 1
    /\ TurnActions(e)[1].tracker = UserMessages(e)[1].tracker
    /\ TurnActions(e)[1].action = c.call.name
    /\ TurnActions(e)[1].is_interruptable = ActionIsInterruptable(c.call.name)

\* C14 as stated: every FunctionCall with user_message that was handed to
\* call_function has its acknowledgement, its action-start record and its action
\* event.
C14_DispatchedCallIsAcknowledgedAndQueued ==
    (kind = "agent" /\ called.turn # NoEvent
     /\ called.call.arguments = "user_message") => AcknowledgedAndQueued(called)

\* C14 amended: a FunctionCall with user_message that passes the preconditions of
\* call_function has one acknowledgement carrying the tracker call_function
\* made, one action-start record and one action event that holds the same
\* tracker and the action's is_interruptable. No action event exists without its
\* action-start record, and no record of a call with user_message without the
\* acknowledgement. For an unknown action nothing is left behind; for a
\* phone-call action without caller identifier the acknowledgement is.
C14_AcknowledgedThenRecordedThenQueued ==
    (kind = "agent" /\ called.turn # NoEvent) =>
        LET e == called.turn
            fc == called.call
        IN
        /\ (PassesPreconditions(called) /\ fc.arguments = "user_message")
              => AcknowledgedAndQueued(called)
        /\ Len(TurnActions(e)) = Len(TurnEntries("action_start", e))
        /\ (TurnEntries("action_start", e) # <<>> /\ fc.arguments = "user_message")
              => Len(UserMessages(e)) = 1
        /\ fc.arguments # "user_message" => UserMessages(e) = <<>>
        /\ fc.name = "unknown" => (UserMessages(e) = <<>> /\ TurnActions(e) = <<>>)
        /\ (fc.name = "phone_call" /\ ~called.has_id /\ fc.arguments = "user_message")
              => (Len(UserMessages(e)) = 1 /\ TurnActions(e) = <<>>)

\* C14 witness: a phone-call FunctionCall with user_message was dispatched after
\* a text fragment: its acknowledgement follows the fragment, and the action
\* event holds the acknowledgement's tracker and is not interruptable
C14_Witness ==
    /\ kind = "agent"
    /\ called.turn # NoEvent
    /\ called.call = [name |-> "phone_call", arguments |-> "user_message"]
    /\ AcknowledgedAndQueued(called)
    /\ ~TurnActions(called.turn)[1].is_interruptable
    /\ FragmentMessages(called.turn) # <<>>

\* the FunctionCall handed to call_function names no configured action, or names
\* a phone-call action while the agent input lacks the caller identifier
FailsPrecondition(c) == c.call.name = "unknown" \/ ~c.has_id

\* C15: after call_function was given a FunctionCall that fails a precondition,
\* the turn has no event on the actions queue and no action-start record, its
\* event is not put back on the input queue and process is never started for it
\* again, and the run loop is alive: it goes on to input_queue.get() once the
\* task has ended.
C15_FailedPreconditionDropsCall ==
    (kind = "agent" /\ called.turn # NoEvent /\ FailsPrecondition(called)) =>
        LET e == called.turn IN
        /\ TurnActions(e) = <<>>
        /\ TurnEntries("action_start", e) = <<>>
        /\ e \notin Range(input_queue)
        /\ Len(SelectSeq(started, LAMBDA x : x = e)) = 1
        /\ worker_task \in {"get", "await"}
        /\ e \in finished => (current_task = "none" \/ interruptable_event # e)

\* C15 witness: a phone-call FunctionCall without caller identifier ended its
\* turn with an exception, and the run loop is back at input_queue.get()
C15_Witness ==
    /\ kind = "agent"
    /\ called.call.name = "phone_call"
    /\ ~called.has_id
    /\ called.turn \in failed
    /\ called.turn \in finished
    /\ worker_task = "get"
    /\ actions_queue = <<>>

\* the agent-response events a turn has put on the output queue
TurnOutput(turn) == SelectSeq(output_queue, LAMBDA x : x.turn = turn)

\* C16 as stated: once process has been run for an ActionResultAgentInput with
\* is_quiet, the transcript holds exactly one action-finish entry for it, and
\* the turn has no agent-response event and no action event.
C16_QuietActionResultIsRecorded ==
    kind = "agent" =>
        \A e \in Range(started) :
            payload[e] = "action_result_quiet" =>
                /\ Len(TurnEntries("action_finish", e)) = 1
                /\ TurnOutput(e) = <<>>
                /\ TurnActions(e) = <<>>

\* C16 amended: an ActionResultAgentInput with is_quiet has exactly one
\* action-finish entry once process has run for it with the agent not muted, and
\* none if process ran while the agent was muted or never ran; in every case the
\* turn has no agent-response event, no action-start record and no action event.
C16_QuietActionResultRecordedUnlessMuted ==
    kind = "agent" =>
        \A e \in 1..nextEv :
            payload[e] = "action_result_quiet" =>
                /\ Len(TurnEntries("action_finish", e)) =
                      IF e \in Range(started) /\ e \notin skipped THEN 1 ELSE 0
                /\ TurnOutput(e) = <<>>
                /\ TurnEntries("action_start", e) = <<>>
                /\ TurnActions(e) = <<>>

\* C16 witness: with filler audio, goodbye detection and actions all configured,
\* a quiet action result was processed: its action-finish entry is in the
\* transcript and the output queue is empty
C16_Witness ==
    /\ kind = "agent"
    /\ agent_config.send_filler_audio
    /\ agent_config.end_conversation_on_goodbye
    /\ agent_config.actions
    /\ \E e \in finished :
          /\ payload[e] = "action_result_quiet"
          /\ Len(TurnEntries("action_finish", e)) = 1
    /\ output_queue = <<>>

\* C17: a turn in which the goodbye task resolved true within the wait belongs
\* to an agent with goodbye detection enabled, has exactly one Stop event, and
\* every Message event of the turn is ahead of it on the output queue.
C17_GoodbyeEmitsOneStopLast ==
    kind = "agent" =>
        \A e \in goodbye_detected :
            /\ agent_config.end_conversation_on_goodbye
            /\ Len(TurnEvents("Stop", e)) = 1
            /\ \A i, j \in 1..Len(output_queue) :
                  (output_queue[i].turn = e /\ output_queue[i].type = "Message"
                   /\ output_queue[j].turn = e /\ output_queue[j].type = "Stop")
                      => i < j

\* C17 witness: a streaming turn emitted a fragment Message, dispatched a function
\* call with its acknowledgement, and ended with the goodbye task resolving true:
\* the Stop is the last event of the turn
C17_Witness ==
    /\ kind = "agent"
    /\ \E e \in goodbye_detected :
          /\ Len(FragmentMessages(e)) >= 1
          /\ Len(AckMessages(e)) = 1
          /\ TurnOutput(e)[Len(TurnOutput(e))].type = "Stop"

\* the turn reached response generation: process was started for it with the
\* agent not muted, and its input is a transcription or an action result that is
\* not quiet
ReachedGeneration(e) ==
    /\ e \in Range(started)
    /\ e \notin skipped
    /\ payload[e] \in {"transcription", "action_result"}

\* C18: with send_filler_audio enabled, every turn that reached response
\* generation has exactly one FillerAudio event, and it is the first event of the
\* turn on the output queue, ahead of every Message and every Stop; with
\* send_filler_audio disabled there is no FillerAudio event.
C18_FillerAudioComesFirst ==
    kind = "agent" =>
        /\ agent_config.send_filler_audio =>
              \A e \in 1..nextEv :
                  ReachedGeneration(e) =>
                      /\ Len(TurnEvents("FillerAudio", e)) = 1
                      /\ TurnOutput(e)[1].type = "FillerAudio"
        /\ ~agent_config.send_filler_audio =>
              \A i \in 1..Len(output_queue) : output_queue[i].type # "FillerAudio"

\* C18 witness: with send_filler_audio enabled a turn emitted FillerAudio, then a
\* Message, then Stop
C18_Witness ==
    /\ kind = "agent"
    /\ agent_config.send_filler_audio
    /\ \E e \in finished :
          /\ Len(TurnOutput(e)) = 3
          /\ TurnOutput(e)[1].type = "FillerAudio"
          /\ TurnOutput(e)[2].type = "Message"
          /\ TurnOutput(e)[3].type = "Stop"

\* the bytes of the chunks of a stream, joined in order
RECURSIVE Concatenated(_)
Concatenated(stream) ==
    IF stream = <<>> THEN <<>>
    ELSE stream[1].chunk \o Concatenated(Tail(stream))

\* C19: when chunk_generator of FillerAudio.create_synthesis_result or of
\* create_synthesis_result_from_wav has run to its end, the chunks it yielded
\* join to the whole audio, exactly one of them has is_last_chunk true, and
\* that one is the last of the stream; this for every audio and every positive
\* chunk_size, a length that is a multiple of chunk_size or zero included.
C19_ChunksJoinToAudioOneLastFlag ==
    exhausted =>
        /\ Concatenated(chunks) = audio_data
        /\ Cardinality({i \in 1..Len(chunks) : chunks[i].is_last_chunk}) = 1
        /\ chunks # <<>> /\ chunks[Len(chunks)].is_last_chunk

\* the duration of the synthesized audio, in sample periods
TotalDuration == Len(audio_data)

IsPrefix(p, q) == Len(p) <= Len(q) /\ p = SubSeq(q, 1, Len(p))

\* C20: every call of the get_message_up_to built from the total response
\* length returns a prefix of the message text; of two calls the one with the
\* larger T returns at least as long a prefix; and a call with T at or beyond
\* the total duration of the audio returns the whole text.
C20_MessageUpToMonotoneAndFull ==
    synthesizer = "from_wav" =>
        \A i \in 1..Len(up_to) :
            /\ ~up_to[i].result.raised
            /\ IsPrefix(up_to[i].result.text, message_text)
            /\ up_to[i].seconds >= TotalDuration => up_to[i].result.text = message_text
            /\ \A j \in 1..Len(up_to) :
                   up_to[i].seconds <= up_to[j].seconds
                       => Len(up_to[i].result.text) <= Len(up_to[j].result.text)

\* a chunk of silence in the transcriber's encoding: zero samples in LINEAR16,
\* 0xFF in mu-law
IsSilent(chunk) ==
    \A i \in 1..Len(chunk) : chunk[i] = IF audio_encoding = "linear16" THEN 0 ELSE 255

\* C21: every send_audio(chunk) puts exactly one item on the input queue; made
\* while the transcriber is muted the item is a silent chunk of len(chunk)
\* bytes, in LINEAR16 and in mu-law and for every length; made while it is not
\* muted the item is the chunk itself.
C21_MutedSendEnqueuesSilenceOfEqualLength ==
    /\ Len(input_queue) = Len(sent)
    /\ \A i \in 1..Len(sent) :
           i <= Len(input_queue) =>
               IF sent[i].is_muted
               THEN Len(input_queue[i]) = Len(sent[i].chunk) /\ IsSilent(input_queue[i])
               ELSE input_queue[i] = sent[i].chunk

\* terminate() has been called on the started worker and its effect stands:
\* the forwarding task is marked for cancellation or has ended
ForwardingStopped == worker_cancel \/ worker_task = "done"

\* C30: in a ThreadAsyncWorker the items put on input_queue are, in the order
\* they were put and each once, the items the thread has taken, then those on
\* the thread-side input queue, then those still on input_queue; the same for
\* the items the thread has put, through output_janus_queue to output_queue.
\* While the forwarding task runs, a forwarder with an item waiting can take
\* its step whatever the state of the other direction. Once terminate() has
\* cancelled the task no step takes an item off input_queue or puts one on
\* output_queue, and the thread is still running.
C30_ForwardingIsFifoUntilTerminate ==
    /\ [](/\ thread_got \o input_janus_queue \o input_queue = Positions(nextEv)
          /\ output_queue \o output_janus_queue = thread_put
          /\ (worker_task = "forwarding" /\ ~worker_cancel /\ input_queue # <<>>)
                 => ENABLED ForwardToThread
          /\ (worker_task = "forwarding" /\ ~worker_cancel /\ output_janus_queue # <<>>)
                 => ENABLED ForwardFromThread
          /\ worker_task # "none" => worker_thread = "running")
    /\ [][ForwardingStopped =>
              /\ Len(input_queue') >= Len(input_queue)
              /\ input_janus_queue' = input_janus_queue \/ ThreadGet
              /\ output_queue' = output_queue]_vars

\* both directions have carried two items in order and the worker was then
\* terminated with an item still waiting on input_queue
C30_Witness ==
    /\ kind = "thread"
    /\ Len(thread_got) = 1
    /\ output_queue = <<1, 2>>
    /\ input_queue # <<>>
    /\ worker_task = "done"
    /\ worker_thread = "running"

GeneratorEnded == generator \in {"broke", "cancelled", "closed"}

\* the last chunk the generator has yielded is flagged is_last
YieldedLast ==
    yielded_chunks # <<>> /\ yielded_chunks[Len(yielded_chunks)].is_last_chunk

\* C22: the MP3 consumer loop yields the pairs of the decoder's output queue in
\* the order the decoder made them; once it has yielded the pair flagged
\* is_last it yields nothing more and never waits for another item, with a span
\* or without one; and when it ends after the last chunk a span that was
\* supplied has been ended.
C22_ConsumerStopsAfterLastChunk ==
    /\ yielded_chunks \o output_queue \o output_janus_queue = thread_put
    /\ \A i \in 1..Len(yielded_chunks) :
           yielded_chunks[i].is_last_chunk => i = Len(yielded_chunks)
    /\ YieldedLast => generator # "waiting"
    /\ (generator = "broke" /\ has_span) => span_ended

\* the response failed and nothing is left anywhere in the pipeline, and the
\* generator waits in output_queue.get(): no step of the program wakes it
WaitsForever ==
    /\ send_task = "raised"
    /\ generator = "waiting"
    /\ input_queue = <<>>
    /\ input_janus_queue = <<>>
    /\ output_janus_queue = <<>>
    /\ output_queue = <<>>

\* C23: when reading the response fails during MP3 streaming the generator does
\* not stay waiting on the decoder's output queue with nothing left to come;
\* and when send_chunks ends normally it has pushed the chunks of the response
\* in order and then the one sentinel.
C23_ReadFailureEndsConsumer ==
    /\ ~WaitsForever
    /\ send_task = "done" => pushed = response \o <<None>>
    /\ send_task = "running" => pushed = SubSeq(response, 1, response_i)

\* C29: whenever the MP3 generator has ended, by the break after the last
\* chunk, by a cancellation while it waited for a chunk, or by being closed at
\* a yield, terminate() has been called on the decoder worker: its forwarding
\* task is marked for cancellation or has ended, and forwards nothing more.
C29_DecoderTerminatedWhenGeneratorEnds ==
    /\ [](GeneratorEnded => (worker_task = "none" \/ ForwardingStopped))
    /\ [][GeneratorEnded =>
              /\ Len(input_queue') >= Len(input_queue)
              /\ output_queue' = output_queue]_vars

\* the generator was cancelled while it waited, after it had yielded a chunk,
\* and the forwarding task has ended
C29_Witness ==
    /\ generator = "cancelled"
    /\ yielded_chunks # <<>>
    /\ worker_task = "done"
    /\ terminated

\* C25: the constructor of a synthesizer ends with an assertion error exactly
\* when the encoding is mu-law and the sampling rate is not 8000, and then none
\* of the audio lists and no HTTP session has been set up; with mu-law at 8000
\* and with LINEAR16 at any rate it returns with all of them set.
C25_MulawRequires8000 ==
    constructed # "no" =>
        LET rejected == /\ synthesizer_config.audio_encoding = "mulaw"
                        /\ synthesizer_config.sampling_rate # 8000
        IN  /\ rejected <=> constructed = "assertion_error"
            /\ rejected => attrs \cap StateAttrs = {} /\ own_session = "none"
            /\ ~rejected => StateAttrs \subseteq attrs

\* a mu-law synthesizer at 16 kHz was refused
C25_Witness ==
    /\ constructed = "assertion_error"
    /\ synthesizer_config = [audio_encoding |-> "mulaw", sampling_rate |-> 16000]

\* the Message events of text fragments that have been taken off the output
\* queue, as recorded when they were taken
PlayedFragments ==
    SelectSeq(played, LAMBDA p : p.event.type = "Message" /\ p.event.tracker # "user_message")

\* C24: in a streaming turn whose first Message was played to the end, its
\* tracker signaled, and whose second Message was interrupted, the tracker the
\* second event carries is not signaled, whether or not the agent input came
\* with an agent_response_tracker.
C24_InterruptedMessageTrackerNotSignaled ==
    LET ps == PlayedFragments IN
    \A i, j \in 1..Len(ps) :
        (/\ i = 1 /\ j = 2
         /\ ps[i].event.turn = ps[j].event.turn
         /\ ~ps[i].interrupted /\ ps[i].tracker \in signaled
         /\ ps[j].interrupted)
            => ps[j].tracker \notin signaled

\* every event the agent has put on its output queue, those taken off first
Emitted == [i \in 1..Len(played) |-> played[i].event] \o output_queue

EmittedFragments ==
    SelectSeq(Emitted, LAMBDA x : x.type = "Message" /\ x.tracker # "user_message")

\* C26: while a streaming turn runs, the Message events emitted in it for its text
\* fragments are one per fragment yielded, each with is_interruptable equal to
\* allow_agent_to_be_cut_off and the fragment's own flag, and each carrying the
\* input's tracker when the input has one and a new tracker otherwise; a new
\* tracker is not set while its event is on the output queue.
C26_MessageCarriesFlagAndTracker ==
    (agent_input.type # "none" /\ agent_config.generate_responses) =>
        LET ms == SelectSeq(EmittedFragments,
                            LAMBDA x : x.turn = interruptable_event)
            ts == TextItems(generated)
        IN  /\ Len(ms) = Len(ts)
            /\ \A i \in 1..Len(ms) :
                   /\ i <= Len(ts) =>
                          ms[i].is_interruptable =
                              (agent_config.allow_agent_to_be_cut_off
                                   /\ ts[i].is_interruptable)
                   /\ ms[i].tracker = IF agent_input.tracker THEN "input" ELSE "fresh"
            /\ \A k \in (Len(played) + 1)..(Len(played) + Len(output_queue)) :
                   <<"own", k>> \notin signaled

\* cutting off is allowed, the input came without a tracker, and the stream has
\* yielded an interruptable and then a non-interruptable fragment
C26_Witness ==
    /\ agent_input.type = "transcription"
    /\ ~agent_input.tracker
    /\ agent_config.allow_agent_to_be_cut_off
    /\ Len(TextItems(generated)) = 2
    /\ generated[1].is_interruptable /\ ~generated[2].is_interruptable
    /\ Len(EmittedFragments) = 2
    /\ EmittedFragments[1].is_interruptable /\ ~EmittedFragments[2].is_interruptable
    /\ EmittedFragments[2].tracker = "fresh"

\* the Stop events a turn has on a queue of agent responses
StopsOf(q, turn) == SelectSeq(q, LAMBDA x : x.type = "Stop" /\ x.turn = turn)

\* this step puts a Stop event of the running turn on the output queue
StopEmitted ==
    Len(StopsOf(output_queue', interruptable_event)) >
        Len(StopsOf(output_queue, interruptable_event))

\* in this step handle_respond returns True to process: respond returned a
\* non-empty text with should_stop true, or it raised (lines 279-287)
HandlerReturnsShouldStop ==
    /\ apc = "respond"
    /\ \/ /\ responded'.turn = interruptable_event
          /\ responded'.text # ""
          /\ responded'.should_stop
       \/ interruptable_event \in model_raised' \ model_raised

\* in this step the wait for the goodbye task ends with True
GoodbyeResolvesTrue ==
    /\ apc = "goodbye"
    /\ interruptable_event \in goodbye_detected' \ goodbye_detected

\* C27: a step puts a Stop event on the output queue only if in it the response
\* handler returns should_stop true or the wait for the goodbye task ends with
\* True; when the wait ends with a timeout or with False the output queue is left
\* as it is and process returns; and no turn has more than one Stop event.
C27_StopOnlyOnShouldStopOrGoodbye ==
    /\ [](kind = "agent" =>
             \A e \in 1..nextEv : Len(StopsOf(output_queue, e)) <= 1)
    /\ [][kind = "agent" =>
             /\ StopEmitted => (HandlerReturnsShouldStop \/ GoodbyeResolvesTrue)
             /\ \A r \in {"timeout", "not_goodbye"} :
                   Goodbye(r) => /\ output_queue' = output_queue
                                 /\ current_task' = "returned"]_vars

\* C27 witness: with goodbye detection enabled, respond returned a text with
\* should_stop false, the wait for the goodbye task ended without True, and the
\* turn is over with its Message and no Stop
C27_Witness ==
    /\ kind = "agent"
    /\ agent_config.end_conversation_on_goodbye
    /\ responded.turn # NoEvent
    /\ responded.text # ""
    /\ ~responded.should_stop
    /\ responded.turn \in finished
    /\ responded.turn \notin goodbye_detected
    /\ Len(TurnEvents("Message", responded.turn)) = 1
    /\ StopsOf(output_queue, responded.turn) = <<>>

C31_InterruptedStaysInterrupted ==
    [][IsInterruptableWorker =>
          \A e \in 1..nextEv : is_interrupted(e) => is_interrupted(e)']_vars

\* C32 as stated: every acknowledgement Message a turn has on the output queue
\* has its action event, carrying the acknowledgement's tracker, on the actions
\* queue and its action-start record in the transcript, whether the dispatch
\* ended normally, in a failed precondition or in an argument-parsing error.
C32_AcknowledgementOnlyWithAction ==
    kind = "agent" =>
        \A e \in 1..nextEv :
            /\ Len(AckMessages(e)) <=
                  Len(SelectSeq(TurnActions(e), LAMBDA x : x.tracker = "user_message"))
            /\ Len(AckMessages(e)) <= Len(TurnEntries("action_start", e))

\* the task of the current event has been made and is not done
InFlight == current_task \in {"created", "suspended"}

\* C33: the events for which process was started are in the order they were
\* dequeued, each of them but the last has had its task finished by the loop and
\* its is_interruptable forced false, so at most one task is in flight; and
\* while a task is in flight the worker's interruptable_event is the event the
\* loop dequeued last, which is the one process was started for.
C33_OneTaskInFlightInDequeueOrder ==
    IsInterruptableWorker =>
        /\ \A i, j \in 1..Len(started) : i < j => started[i] < started[j]
        /\ \A i \in 1..(Len(started) - 1) :
               /\ started[i] \in finished
               /\ ~is_interruptable[started[i]]
        /\ Cardinality({e \in Range(started) : e \notin finished}) <= 1
        /\ InFlight =>
               /\ worker_task # "get"
               /\ interruptable_event = item
               /\ interruptable_event \notin finished \cup dropped
               /\ current_task = "suspended" =>
                      started[Len(started)] = interruptable_event

\* C33 witness: the first event was processed and finished, the second was
\* dropped as interrupted, and process of the third is in flight
C33_Witness ==
    /\ kind = "interruptable"
    /\ started = <<1, 3>>
    /\ 1 \in finished
    /\ 2 \in dropped
    /\ current_task = "suspended"
    /\ interruptable_event = 3

\* C34 as stated: for any two distinct workers, whatever their classes and
\* whether or not they were constructed with an output_queue argument, no item
\* produced by one is on the output queue of the other.
C34_WorkersOwnTheirOutputQueues ==
    kind = "workers" =>
        \A w1, w2 \in 1..Len(instances) :
            w1 # w2 =>
                \A i \in 1..Len(queues[instances[w2].output_queue]) :
                    queues[instances[w2].output_queue][i].by # w1

====
